---- MODULE Spec2Model ----
(***************************************************************************)
(* PAHFIT: the Feature Table <-> Fitter translation of pahfit/model.py and *)
(* the Fitter session of pahfit/fitter.py (AstropyFitter).                 *)
(*                                                                         *)
(* Two specifications share the variables:                                 *)
(*   FitterSpec  drives one AstropyFitter through its public operations;   *)
(*   Spec        drives a Model (features table) through fit / tabulate.   *)
(***************************************************************************)
EXTENDS Integers, Sequences, FiniteSets, TLC

VARIABLES features, fitter, ret, call

vars == <<features, fitter, ret, call>>

(***************************************************************************)
(* Floating point.  The code computes in IEEE-754 binary64 with round to   *)
(* nearest, ties to even.  The same arithmetic is modelled here with a     *)
(* mantissa of MantissaBits bits (53 in the code): a finite non-zero       *)
(* number is [m, e] with 2^(MantissaBits-1) <= m < 2^MantissaBits and      *)
(* value m * 2^e.                                                          *)
(***************************************************************************)
MantissaBits == 8

Pow2(k) == 2 ^ k

RECURSIVE BitLen(_)
BitLen(n) == IF n <= 0 THEN 0 ELSE 1 + BitLen(n \div 2)

Zero == [m |-> 0, e |-> 0]
PosInf == [m |-> -1, e |-> 1]
NegInf == [m |-> -1, e |-> -1]
\* Python's None, as a bound handed to the astropy constructor
NoneBound == [m |-> -2, e |-> 0]

IsInf(x) == x.m = -1
IsFinite(x) == x.m >= 0

\* n * 2^e (plus a non-zero remainder below the last bit of n when sticky),
\* n of b > MantissaBits bits, rounded to MantissaBits bits, to nearest,
\* ties to even
FRoundBits(n, b, sticky, e) ==
    LET s == b - MantissaBits
        q == n \div Pow2(s)
        low == n % Pow2(s)
        half == Pow2(s - 1)
        up == \/ low > half
              \/ low = half /\ (sticky \/ q % 2 = 1)
    IN  IF ~up THEN [m |-> q, e |-> e + s]
        ELSE IF q + 1 = Pow2(MantissaBits) THEN [m |-> (q + 1) \div 2, e |-> e + s + 1]
        ELSE [m |-> q + 1, e |-> e + s]

FRound(n, sticky, e) ==
    LET b == BitLen(n)
    IN  IF n = 0 THEN Zero
        ELSE IF b <= MantissaBits
        THEN [m |-> n * Pow2(MantissaBits - b), e |-> e - (MantissaBits - b)]
        ELSE FRoundBits(n, b, sticky, e)

\* the floating point number nearest to the decimal literal num/den
Flt(num, den) ==
    LET d == MantissaBits + 3 + BitLen(den) - BitLen(num)
        k == IF d < 0 THEN 0 ELSE d
        n == num * Pow2(k)
    IN  FRound(n \div den, n % den # 0, -k)

\* the product of two mantissas has 2p - 1 or 2p bits
FMul(x, y) ==
    IF IsInf(x) THEN x
    ELSE IF x = Zero \/ y = Zero THEN Zero
    ELSE LET n == x.m * y.m
             b == IF n >= Pow2(2 * MantissaBits - 1)
                  THEN 2 * MantissaBits ELSE 2 * MantissaBits - 1
         IN  FRoundBits(n, b, FALSE, x.e + y.e)

\* the quotient of x.m * 2^(p+2) by y.m has p + 2 or p + 3 bits
FDiv(x, y) ==
    IF IsInf(x) THEN x
    ELSE IF x = Zero THEN Zero
    ELSE LET k == MantissaBits + 2
             n == x.m * Pow2(k)
             q == n \div y.m
             b == IF q >= Pow2(k) THEN k + 1 ELSE k
         IN  FRoundBits(q, b, n % y.m # 0, x.e - y.e - k)

\* x <= y on the extended non-negative numbers
FLeq(x, y) ==
    IF x = NegInf \/ y = PosInf THEN TRUE
    ELSE IF x = PosInf \/ y = NegInf THEN FALSE
    ELSE IF x = Zero THEN TRUE
    ELSE IF y = Zero THEN FALSE
    ELSE x.e < y.e \/ (x.e = y.e /\ x.m <= y.m)

\* fitter.py:385 and :531, the literal 2.355
FwhmFactor == Flt(2355, 1000)

(***************************************************************************)
(* A bounded parameter as the features table stores it: a masked array of  *)
(* three numbers (value, lower bound, upper bound).  Both bounds masked    *)
(* means fixed; an infinite bound means unbounded on that side; a column   *)
(* the kind does not use is masked entirely.                               *)
(***************************************************************************)
Fixed(v) == [val |-> <<v, Zero, Zero>>, mask |-> <<FALSE, TRUE, TRUE>>]
Bounded(v, lo, hi) == [val |-> <<v, lo, hi>>, mask |-> <<FALSE, FALSE, FALSE>>]
Unused == [val |-> <<Zero, Zero, Zero>>, mask |-> <<TRUE, TRUE, TRUE>>]

\* masked-array arithmetic: elementwise on the data, the mask is kept
TupleDiv(t, y) == [val |-> [i \in 1..3 |-> FDiv(t.val[i], y)], mask |-> t.mask]
TupleMul(t, y) == [val |-> [i \in 1..3 |-> FMul(t.val[i], y)], mask |-> t.mask]

NoParams == [x \in {} |-> Zero]

(***************************************************************************)
(* AstropyFitter (pahfit/fitter.py).  A component is the astropy model     *)
(* instance a register call constructs.  The compound model is kept as the *)
(* postfix form of astropy's expression tree: leaves in left-to-right      *)
(* order, "+" and "*" after their two operands.  The empty sequence is     *)
(* Python's None.                                                          *)
(***************************************************************************)
NoComponent == [name |-> "", cls |-> "", params |-> NoParams]
Leaf(c) == [op |-> "leaf", c |-> c]
Operator(o) == [op |-> o, c |-> NoComponent]
NoModel == <<>>

NoTypes == [x \in {} |-> ""]

\* clear(): the state __init__ leaves as well
NewFitter ==
    [additive_components |-> <<>>,
     multiplicative_components |-> <<>>,
     component_types |-> NoTypes,
     model |-> NoModel]

\* variant: the finalized model survives the reset
clear_KeepsModel(f) == [NewFitter EXCEPT !.model = f.model]

clear(f) == NewFitter

IndexOf(seq, x) == CHOOSE i \in 1..Len(seq) : seq[i] = x
Range(seq) == {seq[i] : i \in 1..Len(seq)}

\* _astropy_model_kwargs: value, fixed flag and bounds of each parameter
astropy_model_kwargs(component_name, param_names, value_tuples) ==
    [name |-> component_name,
     params |->
        [p \in Range(param_names) |->
            LET t == value_tuples[IndexOf(param_names, p)]
                limit(i) == IF t.mask[i] THEN Zero ELSE t.val[i]
                bound(i) == IF IsInf(limit(i)) THEN NoneBound ELSE limit(i)
            IN  [value |-> t.val[1],
                 fixed |-> t.mask[2],
                 bounds |-> <<bound(2), bound(3)>>]]]

register_component(f, astropy_model_class, multiplicative, kwargs) ==
    LET c == [name |-> kwargs.name, cls |-> astropy_model_class, params |-> kwargs.params]
    IN  IF multiplicative
        THEN [f EXCEPT !.multiplicative_components = Append(@, c)]
        ELSE [f EXCEPT !.additive_components = Append(@, c)]

SetType(f, name, kind) ==
    [f EXCEPT !.component_types =
        [n \in DOMAIN f.component_types \cup {name} |->
            IF n = name THEN kind ELSE f.component_types[n]]]

register_starlight(f, name, temperature, tau) ==
    register_component(SetType(f, name, "starlight"), "BlackBody1D", FALSE,
        astropy_model_kwargs(name, <<"temperature", "amplitude">>, <<temperature, tau>>))

register_dust_continuum(f, name, temperature, tau) ==
    register_component(SetType(f, name, "dust_continuum"), "ModifiedBlackBody1D", FALSE,
        astropy_model_kwargs(name, <<"temperature", "amplitude">>, <<temperature, tau>>))

register_line(f, name, power, wavelength, fwhm) ==
    register_component(SetType(f, name, "line"), "Gaussian1D", FALSE,
        astropy_model_kwargs(name, <<"amplitude", "mean", "stddev">>,
            <<power, wavelength, TupleDiv(fwhm, FwhmFactor)>>))

register_dust_feature(f, name, power, wavelength, fwhm) ==
    register_component(SetType(f, name, "dust_feature"), "Drude1D", FALSE,
        astropy_model_kwargs(name, <<"amplitude", "x_0", "fwhm">>,
            <<power, wavelength, fwhm>>))

\* variant: the attenuation is registered without multiplicative=True
register_attenuation_Additive(f, name, tau) ==
    register_component(SetType(f, name, "attenuation"), "S07_attenuation", FALSE,
        astropy_model_kwargs(name, <<"tau_sil">>, <<tau>>))

register_attenuation(f, name, tau) ==
    register_component(SetType(f, name, "attenuation"), "S07_attenuation", TRUE,
        astropy_model_kwargs(name, <<"tau_sil">>, <<tau>>))

register_absorption(f, name, tau, wavelength, fwhm) ==
    register_component(SetType(f, name, "absorption"), "att_Drude1D", TRUE,
        astropy_model_kwargs(name, <<"tau", "x_0", "fwhm">>, <<tau, wavelength, fwhm>>))

\* sum(additive_components[1:], additive_components[0])
RECURSIVE SumFrom(_, _, _)
SumFrom(acc, comps, i) ==
    IF i > Len(comps) THEN acc
    ELSE SumFrom(acc \o <<Leaf(comps[i]), Operator("+")>>, comps, i + 1)

\* for c in multiplicative_components: model *= c
RECURSIVE TimesFrom(_, _, _)
TimesFrom(acc, comps, i) ==
    IF i > Len(comps) THEN acc
    ELSE TimesFrom(acc \o <<Leaf(comps[i]), Operator("*")>>, comps, i + 1)

\* variant: without additive components the product alone is the model
finalize_model_ProductOnly(f) ==
    IF Len(f.additive_components) >= 1
    THEN [err |-> "",
          f |-> [f EXCEPT !.model =
                    TimesFrom(
                        SumFrom(<<Leaf(f.additive_components[1])>>,
                                f.additive_components, 2),
                        f.multiplicative_components, 1)]]
    ELSE IF Len(f.multiplicative_components) >= 1
    THEN [err |-> "",
          f |-> [f EXCEPT !.model =
                    TimesFrom(<<Leaf(f.multiplicative_components[1])>>,
                              f.multiplicative_components, 2)]]
    ELSE [err |-> "PAHFITModelError", f |-> f]

\* variant: the sum starts one component late
finalize_model_DropsFirst(f) ==
    IF Len(f.additive_components) >= 2
    THEN [err |-> "",
          f |-> [f EXCEPT !.model =
                    TimesFrom(
                        SumFrom(<<Leaf(f.additive_components[2])>>,
                                f.additive_components, 3),
                        f.multiplicative_components, 1)]]
    ELSE IF Len(f.additive_components) = 1
    THEN [err |-> "",
          f |-> [f EXCEPT !.model =
                    TimesFrom(<<Leaf(f.additive_components[1])>>,
                              f.multiplicative_components, 1)]]
    ELSE [err |-> "PAHFITModelError", f |-> f]

\* variant: additive_components[0] is taken without looking at the length
finalize_model_NoGuard(f) ==
    IF Len(f.additive_components) >= 1
    THEN [err |-> "",
          f |-> [f EXCEPT !.model =
                    TimesFrom(
                        SumFrom(<<Leaf(f.additive_components[1])>>,
                                f.additive_components, 2),
                        f.multiplicative_components, 1)]]
    ELSE [err |-> "IndexError", f |-> f]

\* variant: the multiplicative components scale the last additive
\* component instead of the sum
finalize_model_ScalesLast(f) ==
    IF Len(f.additive_components) >= 2
    THEN [err |-> "",
          f |-> [f EXCEPT !.model =
                    SumFrom(<<Leaf(f.additive_components[1])>>,
                            SubSeq(f.additive_components, 1,
                                   Len(f.additive_components) - 1), 2)
                    \o TimesFrom(<<Leaf(f.additive_components[Len(f.additive_components)])>>,
                                 f.multiplicative_components, 1)
                    \o <<Operator("+")>>]]
    ELSE IF Len(f.additive_components) = 1
    THEN [err |-> "",
          f |-> [f EXCEPT !.model =
                    TimesFrom(<<Leaf(f.additive_components[1])>>,
                              f.multiplicative_components, 1)]]
    ELSE [err |-> "PAHFITModelError", f |-> f]

\* finalize_model: [err, f]; on the error nothing is assigned
finalize_model(f) ==
    IF Len(f.additive_components) >= 1
    THEN [err |-> "",
          f |-> [f EXCEPT !.model =
                    TimesFrom(
                        SumFrom(<<Leaf(f.additive_components[1])>>,
                                f.additive_components, 2),
                        f.multiplicative_components, 1)]]
    ELSE [err |-> "PAHFITModelError", f |-> f]

IsLeaf(t) == t.op = "leaf"

\* the leaves of a model, left to right
Leaves(model) ==
    LET L == SelectSeq(model, IsLeaf)
    IN  [i \in 1..Len(L) |-> L[i].c]

\* hasattr(model, "submodel_names"): only a CompoundModel has it
IsCompound(model) == Len(model) > 1

\* variant: submodel_names is read without the hasattr test
components_SubmodelsOnly(f) ==
    IF IsCompound(f.model)
    THEN LET L == Leaves(f.model)
         IN  [err |-> "", names |-> [i \in 1..Len(L) |-> L[i].name]]
    ELSE [err |-> "AttributeError", names |-> <<>>]

\* components(): [err, names]
components(f) ==
    IF IsCompound(f.model)
    THEN LET L == Leaves(f.model)
         IN  [err |-> "", names |-> [i \in 1..Len(L) |-> L[i].name]]
    ELSE IF f.model = NoModel
    THEN [err |-> "AttributeError", names |-> <<>>]
    ELSE [err |-> "", names |-> <<f.model[1].c.name>>]

\* the result dict of one component, by component type; a parameter the
\* component does not have is an AttributeError
ResultDict(c_type, component) ==
    LET P == component.params
        need ==
            CASE c_type \in {"starlight", "dust_continuum"} -> {"temperature", "amplitude"}
              [] c_type = "line" -> {"amplitude", "mean", "stddev"}
              [] c_type = "dust_feature" -> {"amplitude", "x_0", "fwhm"}
              [] c_type = "attenuation" -> {"tau_sil"}
              [] c_type = "absorption" -> {"tau", "x_0", "fwhm"}
              [] OTHER -> {}
        dict ==
            CASE c_type \in {"starlight", "dust_continuum"} ->
                    [k \in {"temperature", "tau"} |->
                        IF k = "temperature" THEN P["temperature"].value
                        ELSE P["amplitude"].value]
              [] c_type = "line" ->
                    [k \in {"power", "wavelength", "fwhm"} |->
                        IF k = "power" THEN P["amplitude"].value
                        ELSE IF k = "wavelength" THEN P["mean"].value
                        ELSE FMul(P["stddev"].value, FwhmFactor)]
              [] c_type = "dust_feature" ->
                    [k \in {"power", "wavelength", "fwhm"} |->
                        IF k = "power" THEN P["amplitude"].value
                        ELSE IF k = "wavelength" THEN P["x_0"].value
                        ELSE P["fwhm"].value]
              [] c_type = "attenuation" ->
                    [k \in {"tau"} |-> P["tau_sil"].value]
              [] c_type = "absorption" ->
                    [k \in {"tau", "wavelength", "fwhm"} |->
                        IF k = "tau" THEN P["tau"].value
                        ELSE IF k = "wavelength" THEN P["x_0"].value
                        ELSE P["fwhm"].value]
              [] OTHER -> NoParams
    IN  IF c_type \notin {"starlight", "dust_continuum", "line", "dust_feature",
                          "attenuation", "absorption"}
        THEN [err |-> "PAHFITModelError", dict |-> NoParams]
        ELSE IF ~(need \subseteq DOMAIN P)
        THEN [err |-> "AttributeError", dict |-> NoParams]
        ELSE [err |-> "", dict |-> dict]

\* get_result(component_name): [err, dict]
get_result(f, component_name) ==
    LET L == Leaves(f.model)
        hits == {i \in 1..Len(L) : L[i].name = component_name}
    IN  IF f.model = NoModel
        THEN [err |-> "PAHFITModelError", dict |-> NoParams]
        ELSE IF IsCompound(f.model) /\ Cardinality(hits) # 1
        THEN \* CompoundModel.__getitem__: no (single) component of that name
             [err |-> "IndexError", dict |-> NoParams]
        ELSE IF component_name \notin DOMAIN f.component_types
        THEN [err |-> "KeyError", dict |-> NoParams]
        ELSE ResultDict(f.component_types[component_name],
                        IF IsCompound(f.model)
                        THEN L[CHOOSE i \in hits : TRUE]
                        ELSE f.model[1].c)

\* evaluate_model at one wavelength: v gives the value of every component
\* there; astropy evaluates the expression tree
RECURSIVE EvalStack(_, _, _, _)
EvalStack(model, i, stack, v) ==
    IF i > Len(model) THEN stack
    ELSE IF model[i].op = "leaf"
    THEN EvalStack(model, i + 1, Append(stack, v[model[i].c.name]), v)
    ELSE LET n == Len(stack)
             r == IF model[i].op = "+" THEN stack[n - 1] + stack[n]
                  ELSE stack[n - 1] * stack[n]
         IN  EvalStack(model, i + 1, Append(SubSeq(stack, 1, n - 2), r), v)

evaluate_model(f, v) == EvalStack(f.model, 1, <<>>, v)[1]

\* x clipped to the interval the bounds give (None: unbounded)
Clip(x, bounds) ==
    IF bounds[1] # NoneBound /\ ~FLeq(bounds[1], x) THEN bounds[1]
    ELSE IF bounds[2] # NoneBound /\ ~FLeq(x, bounds[2]) THEN bounds[2]
    ELSE x

\* LevMarLSQFitter on a copy of the model: fixed parameters keep their
\* value, every free parameter ends inside its bounds.  The optimum is a
\* choice of the solver; w is the point it is drawn to.
Solve(model, w) ==
    [i \in 1..Len(model) |->
        IF model[i].op # "leaf" THEN model[i]
        ELSE LET P == model[i].c.params
             IN  Leaf([model[i].c EXCEPT !.params =
                    [p \in DOMAIN P |->
                        IF P[p].fixed THEN P[p]
                        ELSE [value |-> Clip(w, P[p].bounds),
                              fixed |-> P[p].fixed,
                              bounds |-> P[p].bounds]]])]

\* fit(xz, yz, uncz): self.model = astropy_result
fit(f, w) == [f EXCEPT !.model = Solve(f.model, w)]

(***************************************************************************)
(* The features table: name -> row.  A row holds its kind and the five     *)
(* parameter columns.  Pack is the science pack the tables are cut from.   *)
(***************************************************************************)
Row(kind, temperature, tau, power, wavelength, fwhm) ==
    [kind |-> kind, temperature |-> temperature, tau |-> tau, power |-> power,
     wavelength |-> wavelength, fwhm |-> fwhm]

Columns == {"temperature", "tau", "power", "wavelength", "fwhm"}

Pack ==
    [n \in {"star", "cont", "line", "pah", "att", "abs"} |->
        CASE n = "star" ->
                Row("starlight", Fixed(Flt(5000, 1)),
                    Bounded(Zero, Zero, PosInf), Unused, Unused, Unused)
          [] n = "cont" ->
                Row("dust_continuum", Fixed(Flt(300, 1)),
                    Bounded(Zero, Zero, PosInf), Unused, Unused, Unused)
          [] n = "line" ->
                Row("line", Unused, Unused, Bounded(Zero, Zero, PosInf),
                    Fixed(Flt(9, 1)),
                    Bounded(Flt(34, 100), Zero, PosInf))
          [] n = "pah" ->
                Row("dust_feature", Unused, Unused, Bounded(Zero, Zero, PosInf),
                    Fixed(Flt(12, 1)),
                    Bounded(Flt(5, 10), Flt(4, 10), Flt(6, 10)))
          [] n = "att" ->
                Row("attenuation", Unused, Bounded(Zero, Zero, Flt(10, 1)),
                    Unused, Unused, Unused)
          [] n = "abs" ->
                Row("absorption", Unused, Bounded(Zero, Zero, PosInf), Unused,
                    Fixed(Flt(6, 1)), Fixed(Flt(5, 10)))]

Names == DOMAIN Pack

\* the rows of a table in table order (order has no meaning for the fit)
RowOrder == <<"star", "cont", "odd", "line", "pah", "att", "abs">>

SubTable(keep) == [n \in keep |-> Pack[n]]

(***************************************************************************)
(* The instrument collaborator (pahfit/instrument.py).  An instrument name *)
(* selects wavelength segments, each with the FWHM of its resolution.      *)
(***************************************************************************)
Segment(lo, hi, f) == [lo |-> lo, hi |-> hi, fwhm |-> f]

Instruments == {"short", "both"}

ShortSegments == <<Segment(Flt(5, 1), Flt(10, 1), Flt(1, 10))>>
BothSegments ==
    <<Segment(Flt(5, 1), Flt(10, 1), Flt(1, 10)),
      Segment(Flt(8, 1), Flt(20, 1), Flt(2, 10))>>

Segments(instrumentname) ==
    IF instrumentname = "short" THEN ShortSegments ELSE BothSegments

\* the segments of S that contain w
Covering(w, S) == {i \in 1..Len(S) : FLeq(S[i].lo, w) /\ FLeq(w, S[i].hi)}

within_segment(w, instrumentname) == Covering(w, Segments(instrumentname)) # {}

\* instrument.fwhm(inst, w, as_bounded=True)[0]: fixed inside one segment,
\* bounded by the segments' values where segments overlap
FwhmOver(S, C) ==
    LET lo == CHOOSE i \in C : \A j \in C : FLeq(S[i].fwhm, S[j].fwhm)
        hi == CHOOSE i \in C : \A j \in C : FLeq(S[j].fwhm, S[i].fwhm)
    IN  IF Cardinality(C) = 1 THEN Fixed(S[lo].fwhm)
        ELSE Bounded(S[lo].fwhm, S[lo].fwhm, S[hi].fwhm)

FwhmIn(S, C) == IF C = {} THEN Unused ELSE FwhmOver(S, C)

instrument_fwhm(instrumentname, w) ==
    FwhmIn(Segments(instrumentname), Covering(w, Segments(instrumentname)))

\* instrument.check_range([min(x), max(x)], inst): the observed range has to
\* lie inside the instrument's
RangeIn(xmin, xmax, S) ==
    /\ \E i \in 1..Len(S) : FLeq(S[i].lo, xmin)
    /\ \E i \in 1..Len(S) : FLeq(xmax, S[i].hi)

check_range(xmin, xmax, instrumentname) == RangeIn(xmin, xmax, Segments(instrumentname))

(***************************************************************************)
(* Model (pahfit/model.py).  The redshift enters as the number 1 + z.      *)
(***************************************************************************)
Excludable == {"line", "dust_feature", "absorption"}

\* variant: the rest wavelength is compared, not the observed one
excluded_features_RestFrame(table, instrumentname, zp1) ==
    {n \in DOMAIN table :
        LET is_outside == ~within_segment(table[n].wavelength.val[1], instrumentname)
            is_excludable == table[n].kind \in Excludable
        IN  is_outside /\ is_excludable}

\* variant: every kind can be left out
excluded_features_AnyKind(table, instrumentname, zp1) ==
    {n \in DOMAIN table :
        LET observed_wav == FMul(table[n].wavelength.val[1], zp1)
        IN  ~within_segment(observed_wav, instrumentname)}

\* _excluded_features: the names of the rows that are left out
excluded_features(table, instrumentname, zp1) ==
    {n \in DOMAIN table :
        LET observed_wav == FMul(table[n].wavelength.val[1], zp1)
            is_outside == ~within_segment(observed_wav, instrumentname)
            is_excludable == table[n].kind \in Excludable
        IN  is_outside /\ is_excludable}

\* variant: the fwhm of the row is registered whatever use_instrument_fwhm is
RegisterRow_TableFwhm(f, name, row, instrumentname, zp1, use_instrument_fwhm) ==
    CASE row.kind = "starlight" ->
            [err |-> "", f |-> register_starlight(f, name, row.temperature, row.tau)]
      [] row.kind = "dust_continuum" ->
            [err |-> "", f |-> register_dust_continuum(f, name, row.temperature, row.tau)]
      [] row.kind = "line" ->
            LET w_obs == FMul(row.wavelength.val[1], zp1)
                fwhm == IF FALSE
                        THEN TupleDiv(instrument_fwhm(instrumentname, w_obs), zp1)
                        ELSE row.fwhm
            IN  [err |-> "", f |-> register_line(f, name, row.power, row.wavelength, fwhm)]
      [] row.kind = "dust_feature" ->
            [err |-> "",
             f |-> register_dust_feature(f, name, row.power, row.wavelength, row.fwhm)]
      [] row.kind = "attenuation" ->
            [err |-> "", f |-> register_attenuation(f, name, row.tau)]
      [] row.kind = "absorption" ->
            [err |-> "",
             f |-> register_absorption(f, name, row.tau, row.wavelength, row.fwhm)]
      [] OTHER -> [err |-> "PAHFITModelError", f |-> f]

\* variant: a row of an unknown kind is passed over
RegisterRow_SkipsUnknown(f, name, row, instrumentname, zp1, use_instrument_fwhm) ==
    CASE row.kind = "starlight" ->
            [err |-> "", f |-> register_starlight(f, name, row.temperature, row.tau)]
      [] row.kind = "dust_continuum" ->
            [err |-> "", f |-> register_dust_continuum(f, name, row.temperature, row.tau)]
      [] row.kind = "line" ->
            LET w_obs == FMul(row.wavelength.val[1], zp1)
                fwhm == IF use_instrument_fwhm
                        THEN TupleDiv(instrument_fwhm(instrumentname, w_obs), zp1)
                        ELSE row.fwhm
            IN  [err |-> "", f |-> register_line(f, name, row.power, row.wavelength, fwhm)]
      [] row.kind = "dust_feature" ->
            [err |-> "",
             f |-> register_dust_feature(f, name, row.power, row.wavelength, row.fwhm)]
      [] row.kind = "attenuation" ->
            [err |-> "", f |-> register_attenuation(f, name, row.tau)]
      [] row.kind = "absorption" ->
            [err |-> "",
             f |-> register_absorption(f, name, row.tau, row.wavelength, row.fwhm)]
      [] OTHER -> [err |-> "", f |-> f]

\* one pass of the loop of _construct_model: [err, f]
RegisterRow(f, name, row, instrumentname, zp1, use_instrument_fwhm) ==
    CASE row.kind = "starlight" ->
            [err |-> "", f |-> register_starlight(f, name, row.temperature, row.tau)]
      [] row.kind = "dust_continuum" ->
            [err |-> "", f |-> register_dust_continuum(f, name, row.temperature, row.tau)]
      [] row.kind = "line" ->
            LET w_obs == FMul(row.wavelength.val[1], zp1)
                fwhm == IF use_instrument_fwhm
                        THEN TupleDiv(instrument_fwhm(instrumentname, w_obs), zp1)
                        ELSE row.fwhm
            IN  [err |-> "", f |-> register_line(f, name, row.power, row.wavelength, fwhm)]
      [] row.kind = "dust_feature" ->
            [err |-> "",
             f |-> register_dust_feature(f, name, row.power, row.wavelength, row.fwhm)]
      [] row.kind = "attenuation" ->
            [err |-> "", f |-> register_attenuation(f, name, row.tau)]
      [] row.kind = "absorption" ->
            [err |-> "",
             f |-> register_absorption(f, name, row.tau, row.wavelength, row.fwhm)]
      [] OTHER -> [err |-> "PAHFITModelError", f |-> f]

RECURSIVE RegisterRows(_, _, _, _, _, _, _)
RegisterRows(acc, table, todo, i, instrumentname, zp1, use_instrument_fwhm) ==
    IF acc.err # "" \/ i > Len(RowOrder) THEN acc
    ELSE RegisterRows(
            IF RowOrder[i] \notin todo THEN acc
            ELSE RegisterRow(acc.f, RowOrder[i], table[RowOrder[i]],
                             instrumentname, zp1, use_instrument_fwhm),
            table, todo, i + 1, instrumentname, zp1, use_instrument_fwhm)

\* _construct_model: [err, f], f the finalized Fitter
Finalized(reg) == IF reg.err # "" THEN reg ELSE finalize_model(reg.f)

\* variant: the session of the Model's last Fitter is registered into again
construct_model_SameSession(table, instrumentname, zp1, use_instrument_fwhm) ==
    Finalized(RegisterRows([err |-> "", f |-> fitter], table,
                           DOMAIN table \ excluded_features(table, instrumentname, zp1),
                           1, instrumentname, zp1, use_instrument_fwhm))

construct_model(table, instrumentname, zp1, use_instrument_fwhm) ==
    Finalized(RegisterRows([err |-> "", f |-> NewFitter], table,
                           DOMAIN table \ excluded_features(table, instrumentname, zp1),
                           1, instrumentname, zp1, use_instrument_fwhm))

\* features.loc[name][column][0] = value
SetValue(table, name, column, value) ==
    [table EXCEPT ![name][column] =
        [val |-> [@.val EXCEPT ![1] = value], mask |-> [@.mask EXCEPT ![1] = FALSE]]]

RECURSIVE IngestColumns(_, _, _, _)
IngestColumns(table, name, dict, cols) ==
    IF cols = {} THEN table
    ELSE LET c == CHOOSE x \in cols : TRUE
         IN  IngestColumns(SetValue(table, name, c, dict[c]), name, dict, cols \ {c})

IngestResult(table, name, dict) == IngestColumns(table, name, dict, DOMAIN dict)

RECURSIVE IngestNames(_, _, _, _)
IngestNames(table, f, names, i) ==
    IF i > Len(names) THEN table
    ELSE IngestNames(IngestResult(table, names[i], get_result(f, names[i]).dict),
                     f, names, i + 1)

\* variant: the first component is not written back
ingest_fit_result_to_features_SkipsFirst(table, f) ==
    IngestNames(table, f, components(f).names, 2)

\* variant: the rows that took no part in the fit are removed
ingest_fit_result_to_features_DropsUnfitted(table, f) ==
    [n \in DOMAIN table \cap DOMAIN f.component_types |->
        IngestNames(table, f, components(f).names, 1)[n]]

\* _ingest_fit_result_to_features
ingest_fit_result_to_features(table, f) ==
    IngestNames(table, f, components(f).names, 1)

(***************************************************************************)
(* Inputs.                                                                 *)
(***************************************************************************)
\* 1 + z for z = 0 and z = 0.5
Redshifts == {Flt(1, 1), Flt(3, 2)}

\* the observed wavelength range [min(x), max(x)] of a spectrum
Spectra == {<<Flt(6, 1), Flt(9, 1)>>, <<Flt(6, 1), Flt(15, 1)>>}

\* the points the solver's optimum is drawn to
FitVals == {Flt(57, 1000), Flt(3, 1)}

\* the tables a Model is made of: the pack, a table without additive
\* rows, a table of one line
Tables == {Names, {"att", "abs"}, {"line"}}

NoRet == [err |-> "", names |-> <<>>, dict |-> NoParams]
Failed(e) == [NoRet EXCEPT !.err = e]

Call(op, name, inst, zp1, use) ==
    [op |-> op, name |-> name, inst |-> inst, zp1 |-> zp1, use |-> use]
FitterCall(op, name) == Call(op, name, "", Zero, FALSE)

(***************************************************************************)
(* FitterSpec: one AstropyFitter driven through its public operations.     *)
(* A register call is given a name not used before in the session          *)
(* (fitter.py:66 "Unique name") and the parameters of that name's pack row.*)
(***************************************************************************)
FitterInit ==
    /\ features = Pack
    /\ fitter = NewFitter
    /\ ret = NoRet
    /\ call = FitterCall("__init__", "")

Fresh(n) == n \notin DOMAIN fitter.component_types

Registered(op, n, f) ==
    /\ fitter' = f
    /\ ret' = NoRet
    /\ call' = FitterCall(op, n)
    /\ UNCHANGED features

Clear ==
    /\ fitter' = clear(fitter)
    /\ ret' = NoRet
    /\ call' = FitterCall("clear", "")
    /\ UNCHANGED features

RegisterStarlight ==
    \E n \in Names :
        /\ Fresh(n) /\ Pack[n].kind = "starlight"
        /\ Registered("register_starlight", n,
                register_starlight(fitter, n, Pack[n].temperature, Pack[n].tau))

RegisterDustContinuum ==
    \E n \in Names :
        /\ Fresh(n) /\ Pack[n].kind = "dust_continuum"
        /\ Registered("register_dust_continuum", n,
                register_dust_continuum(fitter, n, Pack[n].temperature, Pack[n].tau))

RegisterLine ==
    \E n \in Names :
        /\ Fresh(n) /\ Pack[n].kind = "line"
        /\ Registered("register_line", n,
                register_line(fitter, n, Pack[n].power, Pack[n].wavelength, Pack[n].fwhm))

RegisterDustFeature ==
    \E n \in Names :
        /\ Fresh(n) /\ Pack[n].kind = "dust_feature"
        /\ Registered("register_dust_feature", n,
                register_dust_feature(fitter, n, Pack[n].power, Pack[n].wavelength,
                                      Pack[n].fwhm))

RegisterAttenuation ==
    \E n \in Names :
        /\ Fresh(n) /\ Pack[n].kind = "attenuation"
        /\ Registered("register_attenuation", n,
                register_attenuation(fitter, n, Pack[n].tau))

RegisterAbsorption ==
    \E n \in Names :
        /\ Fresh(n) /\ Pack[n].kind = "absorption"
        /\ Registered("register_absorption", n,
                register_absorption(fitter, n, Pack[n].tau, Pack[n].wavelength,
                                    Pack[n].fwhm))

FinalizeModel ==
    /\ fitter' = finalize_model(fitter).f
    /\ ret' = Failed(finalize_model(fitter).err)
    /\ call' = FitterCall("finalize_model", "")
    /\ UNCHANGED features

Components ==
    /\ ret' = [NoRet EXCEPT !.err = components(fitter).err,
                            !.names = components(fitter).names]
    /\ call' = FitterCall("components", "")
    /\ UNCHANGED <<features, fitter>>

GetResult ==
    \E n \in Names :
        /\ ret' = [NoRet EXCEPT !.err = get_result(fitter, n).err,
                                !.dict = get_result(fitter, n).dict]
        /\ call' = FitterCall("get_result", n)
        /\ UNCHANGED <<features, fitter>>

\* fit() of a session without a model fails inside astropy
FitterFit ==
    \E w \in FitVals :
        /\ IF fitter.model = NoModel
           THEN fitter' = fitter /\ ret' = Failed("AstropyError")
           ELSE fitter' = fit(fitter, w) /\ ret' = NoRet
        /\ call' = FitterCall("fit", "")
        /\ UNCHANGED features

FitterNext ==
    \/ Clear
    \/ RegisterStarlight
    \/ RegisterDustContinuum
    \/ RegisterLine
    \/ RegisterDustFeature
    \/ RegisterAttenuation
    \/ RegisterAbsorption
    \/ FinalizeModel
    \/ Components
    \/ GetResult
    \/ FitterFit

FitterSpec == FitterInit /\ [][FitterNext]_vars

(***************************************************************************)
(* Spec: a Model and its features table.  fitter is Model.fitter, the      *)
(* Fitter of the last fit.                                                 *)
(***************************************************************************)
Init ==
    /\ features \in {SubTable(k) : k \in Tables}
    /\ fitter = NewFitter
    /\ ret = NoRet
    /\ call = Call("__init__", "", "", Zero, FALSE)

\* variant: the range is checked after the fit, not before the construction
FitCall_RangeCheckLast(inst, zp1, use, x, w) ==
        /\ call' = Call("fit", x, inst, zp1, use)
        /\ \E made \in {construct_model(features, inst, zp1, use)} :
                IF made.err # ""
                THEN /\ ret' = Failed(made.err)
                     /\ UNCHANGED <<features, fitter>>
                ELSE /\ fitter' = fit(made.f, w)
                     /\ features' = ingest_fit_result_to_features(features, fitter')
                     /\ ret' = IF check_range(x[1], x[2], inst)
                               THEN NoRet ELSE Failed("RangeError")

\* Model.fit: range check, construction, solver, ingest; call.name keeps
\* [min(x), max(x)] of the spectrum
FitCall(inst, zp1, use, x, w) ==
        /\ call' = Call("fit", x, inst, zp1, use)
        /\ IF ~check_range(x[1], x[2], inst)
           THEN /\ ret' = Failed("RangeError")
                /\ UNCHANGED <<features, fitter>>
           ELSE \E made \in {construct_model(features, inst, zp1, use)} :
                IF made.err # ""
                THEN /\ ret' = Failed(made.err)
                     /\ UNCHANGED <<features, fitter>>
                ELSE /\ fitter' = fit(made.f, w)
                     /\ features' = ingest_fit_result_to_features(features, fitter')
                     /\ ret' = NoRet

Fit ==
    \E inst \in Instruments, zp1 \in Redshifts, use \in BOOLEAN,
       x \in Spectra, w \in FitVals :
        FitCall(inst, zp1, use, x, w)

\* _ingest_fit_result_to_features(self.fitter), as a test calls it
Ingest ==
    /\ fitter.model # NoModel
    /\ features' = ingest_fit_result_to_features(features, fitter)
    /\ ret' = NoRet
    /\ call' = Call("_ingest_fit_result_to_features", "", "", Zero, FALSE)
    /\ UNCHANGED fitter

\* Model.tabulate(instrumentname, redshift): the names of the components of
\* the model that is evaluated (none: the flux is all zeros)
Tabulate ==
    \E inst \in Instruments, zp1 \in Redshifts :
        \E made \in {construct_model(features, inst, zp1, FALSE)} :
            /\ call' = Call("tabulate", "", inst, zp1, FALSE)
            /\ ret' = IF DOMAIN features = {} \/ made.err # ""
                      THEN NoRet
                      ELSE [NoRet EXCEPT !.names = components(made.f).names]
            /\ UNCHANGED <<features, fitter>>

Next ==
    \/ Fit
    \/ Ingest
    \/ Tabulate

Spec == Init /\ [][Next]_vars

(***************************************************************************)
(* Properties of the Model (checked under Spec).                           *)
(***************************************************************************)
FitDone == call.op = "fit" /\ ret.err = ""

NamesOf(seq) == {seq[i] : i \in 1..Len(seq)}

\* the observed-frame wavelength of a row lies in no segment of the instrument
OutOfRange(table, n, inst, zp1) ==
    LET observed == FMul(table[n].wavelength.val[1], zp1)
        S == Segments(inst)
    IN  \A i \in 1..Len(S) : ~(FLeq(S[i].lo, observed) /\ FLeq(observed, S[i].hi))

ShouldExclude(table, n, inst, zp1) ==
    /\ table[n].kind \in {"line", "dust_feature", "absorption"}
    /\ OutOfRange(table, n, inst, zp1)

\* the parameter values of the leaves of a model, leaf by leaf
LeafValues(model) ==
    [i \in 1..Len(Leaves(model)) |->
        [name |-> Leaves(model)[i].name,
         values |-> [p \in DOMAIN Leaves(model)[i].params |->
                        Leaves(model)[i].params[p].value]]]

\* C1 (as claimed): after a completed fit, the model constructed again from
\* the features table with the same instrument, redshift and
\* use_instrument_fwhm holds, for every component and parameter, exactly
\* the value of the fit result.
C1_RoundTripExact ==
    FitDone =>
        LET again == construct_model(features, call.inst, call.zp1, call.use)
        IN  /\ again.err = ""
            /\ LeafValues(again.f.model) = LeafValues(fitter.model)

\* C2: every feature whose wavelength lies outside the instrument range of
\* a fit call has, after fit(), the table entries (values, bounds, masks of
\* every parameter) it had before.
C2_ExcludedUntouched ==
    [][call'.op = "fit" =>
        \A n \in DOMAIN features :
            ShouldExclude(features, n, call'.inst, call'.zp1)
                => features'[n] = features[n]]_vars

C2_Witness ==
    /\ FitDone
    /\ \E n \in DOMAIN features :
        /\ ShouldExclude(features, n, call.inst, call.zp1)
        /\ features[n] = Pack[n]
    /\ \E n \in DOMAIN features : features[n] # Pack[n]

\* C3: ingest writes every column of get_result(name), for every name of
\* components(), into the value slot of that name's row and changes nothing
\* else: no other row or column, no bound, no mask.
C3_IngestFrame ==
    [][(call'.op \in {"fit", "_ingest_fit_result_to_features"} /\ ret'.err = "") =>
        \E names \in {NamesOf(components(fitter').names)} :
            /\ DOMAIN features' = DOMAIN features
            /\ \A n \in names : \E result \in {get_result(fitter', n).dict} :
                /\ DOMAIN result # {}
                /\ \A col \in DOMAIN result : features'[n][col].val[1] = result[col]
                /\ \A col \in Columns \ DOMAIN result :
                        features'[n][col] = features[n][col]
            /\ \A n \in DOMAIN features :
                /\ features'[n].kind = features[n].kind
                /\ n \notin names => features'[n] = features[n]
                /\ \A col \in Columns :
                    /\ features'[n][col].mask = features[n][col].mask
                    /\ features'[n][col].val[2] = features[n][col].val[2]
                    /\ features'[n][col].val[3] = features[n][col].val[3]]_vars

C3_Witness ==
    /\ FitDone
    /\ "line" \in NamesOf(components(fitter).names)
    /\ features["line"].fwhm.val[1] # Pack["line"].fwhm.val[1]
    /\ features["line"].power.val[1] # Pack["line"].power.val[1]
    /\ \E n \in DOMAIN features : n \notin NamesOf(components(fitter).names)

\* C10: a model construction registers exactly the rows that are not
\* (line, dust_feature or absorption with the observed wavelength outside
\* every segment of this call's instrument); the decision is taken from
\* this call's instrument and redshift alone.
C10_ExclusionRule ==
    [][LET kept == {n \in DOMAIN features :
                        ~ShouldExclude(features, n, call'.inst, call'.zp1)}
       IN  /\ (call'.op = "fit" /\ ret'.err = "")
                => NamesOf(components(fitter').names) = kept
           /\ (call'.op = "tabulate" /\ ret'.names # <<>>)
                => NamesOf(ret'.names) = kept]_vars

\* a row left out of the last fit is registered by a later construction
C10_Witness ==
    /\ call.op = "tabulate"
    /\ fitter.model # NoModel
    /\ \E n \in NamesOf(ret.names) : n \notin NamesOf(components(fitter).names)

(***************************************************************************)
(* Properties of the Fitter (checked under FitterSpec).                    *)
(***************************************************************************)
AdditiveKinds == {"starlight", "dust_continuum", "line", "dust_feature"}
MultiplicativeKinds == {"attenuation", "absorption"}

FinalizeDone == call.op = "finalize_model" /\ ret.err = ""

\* the names registered since the last clear(), by the register call used
RegisteredAs(kinds) ==
    {n \in DOMAIN fitter.component_types : fitter.component_types[n] \in kinds}

RECURSIVE SumOver(_, _)
SumOver(S, v) ==
    IF S = {} THEN 0
    ELSE LET n == CHOOSE x \in S : TRUE IN v[n] + SumOver(S \ {n}, v)

RECURSIVE ProdOver(_, _)
ProdOver(S, v) ==
    IF S = {} THEN 1
    ELSE LET n == CHOOSE x \in S : TRUE IN v[n] * ProdOver(S \ {n}, v)

\* values of the components at a wavelength, to tell sums from products
Valuations ==
    {[n \in Names |->
        CASE n = "star" -> 2 [] n = "cont" -> 3 [] n = "line" -> 5
          [] n = "pah" -> 7 [] n = "att" -> 11 [] n = "abs" -> 13],
     [n \in Names |->
        CASE n = "star" -> 13 [] n = "cont" -> 1 [] n = "line" -> 4
          [] n = "pah" -> 0 [] n = "att" -> 3 [] n = "abs" -> 2]}

\* C4: the finalized composite is (sum of the components registered as
\* starlight, dust_continuum, line, dust_feature) times (product of those
\* registered as attenuation, absorption), and every registered component
\* is in it exactly once.
C4_SumTimesProduct ==
    FinalizeDone =>
        /\ \A v \in Valuations :
            evaluate_model(fitter, v) =
                SumOver(RegisteredAs(AdditiveKinds), v)
                    * ProdOver(RegisteredAs(MultiplicativeKinds), v)
        /\ Len(Leaves(fitter.model)) = Cardinality(DOMAIN fitter.component_types)
        /\ {Leaves(fitter.model)[i].name : i \in 1..Len(Leaves(fitter.model))}
                = DOMAIN fitter.component_types

C4_Witness ==
    /\ FinalizeDone
    /\ Cardinality(RegisteredAs(AdditiveKinds)) >= 2
    /\ Cardinality(RegisteredAs(MultiplicativeKinds)) = 2

\* C5: finalize_model with no additive component registered since the last
\* clear() fails with the model error, however many multiplicative ones
\* there are, and leaves the session without a model.
C5_NoAdditiveFails ==
    (call.op = "finalize_model" /\ RegisteredAs(AdditiveKinds) = {}) =>
        /\ ret.err = "PAHFITModelError"
        /\ fitter.model = NoModel

C5_Witness ==
    /\ call.op = "finalize_model"
    /\ ret.err = "PAHFITModelError"
    /\ Cardinality(RegisteredAs(MultiplicativeKinds)) = 2

\* the model parameter a result column is read from
InternalName(kind, col) ==
    CASE col = "temperature" -> "temperature"
      [] col = "power" -> "amplitude"
      [] col = "tau" ->
            IF kind \in {"starlight", "dust_continuum"} THEN "amplitude"
            ELSE IF kind = "attenuation" THEN "tau_sil" ELSE "tau"
      [] col = "wavelength" -> IF kind = "line" THEN "mean" ELSE "x_0"
      [] col = "fwhm" -> IF kind = "line" THEN "stddev" ELSE "fwhm"

\* the columns a kind's register call takes
KindColumns(kind) ==
    CASE kind \in {"starlight", "dust_continuum"} -> {"temperature", "tau"}
      [] kind \in {"line", "dust_feature"} -> {"power", "wavelength", "fwhm"}
      [] kind = "attenuation" -> {"tau"}
      [] kind = "absorption" -> {"tau", "wavelength", "fwhm"}

SingleAdditive ==
    /\ Len(fitter.additive_components) = 1
    /\ Len(fitter.multiplicative_components) = 0
    /\ fitter.model # NoModel

\* C6: with one additive and no multiplicative component the finalized
\* model is that component alone: components() is the one-element list of
\* its name and get_result(name) returns that component's parameters.
C6_SingleComponent ==
    SingleAdditive =>
        LET a == fitter.additive_components[1]
            kind == fitter.component_types[a.name]
            c == fitter.model[1].c
            r == get_result(fitter, a.name)
        IN  /\ Len(fitter.model) = 1
            /\ c.name = a.name /\ c.cls = a.cls
            /\ FinalizeDone => fitter.model = <<Leaf(a)>>
            /\ components(fitter) = [err |-> "", names |-> <<a.name>>]
            /\ r.err = ""
            /\ DOMAIN r.dict = KindColumns(kind)
            /\ \A col \in DOMAIN r.dict :
                r.dict[col] =
                    IF kind = "line" /\ col = "fwhm"
                    THEN FMul(c.params["stddev"].value, FwhmFactor)
                    ELSE c.params[InternalName(kind, col)].value
            /\ call.op = "components" => ret.names = <<a.name>>
            /\ (call.op = "get_result" /\ call.name = a.name) => ret.dict = r.dict

C6_Witness ==
    /\ SingleAdditive
    /\ call.op = "get_result"
    /\ call.name = fitter.additive_components[1].name
    /\ ret.err = ""
    /\ DOMAIN ret.dict # {}

\* C7 (as claimed): get_result(name) fails with the model error whenever
\* the model is not finalized or the name was not registered in the session.
C7_UnknownIsModelError ==
    (/\ call.op = "get_result"
     /\ \/ fitter.model = NoModel
        \/ call.name \notin DOMAIN fitter.component_types) =>
        /\ ret.err = "PAHFITModelError"
        /\ ret.dict = NoParams

\* C8: after finalize_model, components() is the list of the names
\* registered since the last clear(), each once; fit() does not change it.
C8_ComponentsAreRegistered ==
    [][/\ (call'.op = "finalize_model" /\ ret'.err = "") =>
            /\ components(fitter').err = ""
            /\ NamesOf(components(fitter').names) = DOMAIN fitter'.component_types
            /\ Len(components(fitter').names)
                    = Cardinality(DOMAIN fitter'.component_types)
       /\ call'.op = "fit" => components(fitter') = components(fitter)]_vars

C8_Witness ==
    /\ call.op = "fit"
    /\ ret.err = ""
    /\ Len(components(fitter).names) >= 3
    /\ NamesOf(components(fitter).names) = DOMAIN fitter.component_types
    /\ LeafValues(fitter.model) # LeafValues(finalize_model(fitter).f.model)

\* C9 (as claimed): on a finalized, not yet fitted model get_result(name)
\* has exactly the keys of the kind's register call and the values that
\* were registered.
C9_ResultIsRegistered ==
    FinalizeDone =>
        \A n \in DOMAIN fitter.component_types :
            LET r == get_result(fitter, n)
            IN  /\ r.err = ""
                /\ DOMAIN r.dict = KindColumns(fitter.component_types[n])
                /\ \A col \in DOMAIN r.dict : r.dict[col] = Pack[n][col].val[1]

(***************************************************************************)
(* RegisterSpec: a session that is handed (value, min, max) triples with   *)
(* every combination of masked bounds.  features keeps the rows that were  *)
(* passed to the register calls.                                           *)
(***************************************************************************)
MaxRegistered == 2

\* BoundedMaskedColumn.is_fixed: both bounds masked
is_fixed(t) == t.mask[2] /\ t.mask[3]

\* a triple with the given masks on its bounds (the data under a mask stays)
Triple(v, lo, hi, mlo, mhi) == [val |-> <<v, lo, hi>>, mask |-> <<FALSE, mlo, mhi>>]

Triples ==
    {Triple(Flt(5, 10), b[1], b[2], mlo, mhi) :
        b \in {<<Flt(4, 10), Flt(6, 10)>>, <<Flt(5, 10), Flt(5, 10)>>},
        mlo \in BOOLEAN, mhi \in BOOLEAN}

AllComponents(f) == Range(f.additive_components) \cup Range(f.multiplicative_components)

ComponentNamed(f, n) == CHOOSE c \in AllComponents(f) : c.name = n

RegisterInit ==
    /\ features = SubTable({})
    /\ fitter = NewFitter
    /\ ret = NoRet
    /\ call = FitterCall("__init__", "")

\* register_<kind>(name, ...) with the triple t as the parameter col
RegisterTriple ==
    \E n \in Names, col \in Columns, t \in Triples :
        /\ Fresh(n)
        /\ Cardinality(DOMAIN fitter.component_types) < MaxRegistered
        /\ col \in KindColumns(Pack[n].kind)
        /\ \E row \in {[Pack[n] EXCEPT ![col] = t]} :
            /\ fitter' = RegisterRow(fitter, n, row, "short", Flt(1, 1), FALSE).f
            /\ features' = [m \in DOMAIN features \cup {n} |->
                                IF m = n THEN row ELSE features[m]]
        /\ ret' = NoRet
        /\ call' = FitterCall("register", n)

ClearRegistered ==
    /\ fitter' = clear(fitter)
    /\ features' = SubTable({})
    /\ ret' = NoRet
    /\ call' = FitterCall("clear", "")

RegisterNext ==
    \/ RegisterTriple
    \/ ClearRegistered

RegisterSpec == RegisterInit /\ [][RegisterNext]_vars

\* C11 (as claimed): a registered parameter is fixed in the fitter exactly
\* when both bounds of its triple are masked (is_fixed); with at most one
\* masked bound it is free.
C11_FixedIffBothMasked ==
    \A n \in DOMAIN fitter.component_types :
        \A col \in KindColumns(fitter.component_types[n]) :
            ComponentNamed(fitter, n)
                .params[InternalName(fitter.component_types[n], col)].fixed
                    = is_fixed(features[n][col])

(***************************************************************************)
(* GuessSpec: Model.guess on tables in which some parameters are fixed.    *)
(* What guess reads from the spectrum enters as numbers: some_flux (half   *)
(* the median flux), sp (the flux read off or integrated from the data)    *)
(* and bb (a blackbody value).                                             *)
(***************************************************************************)
\* pahfit.features.util.bounded_is_fixed
bounded_is_fixed(t) == is_fixed(t)

\* the parameters of the pack that guess estimates
Guessable ==
    {<<"star", "tau">>, <<"cont", "tau">>, <<"line", "power">>,
     <<"line", "fwhm">>, <<"pah", "power">>}

\* the pack with the parameters of S marked fixed
FixedIn(S) ==
    [n \in Names |->
        [c \in DOMAIN Pack[n] |->
            IF <<n, c>> \in S THEN Fixed(Pack[n][c].val[1]) ELSE Pack[n][c]]]

GuessTables == {FixedIn(S) : S \in SUBSET Guessable}

FluxVals == {Flt(2, 1), Flt(7, 1)}
BlackBodyVals == {Flt(1, 2), Flt(4, 1)}

\* self.features[row_index][parameter][0] = guess_value
WriteGuess(t, guess_value) ==
    [val |-> [t.val EXCEPT ![1] = guess_value], mask |-> [t.mask EXCEPT ![1] = FALSE]]

\* estimate_function gives, under the name of a row, the value the code's
\* estimate_function returns for that row
loop_over_non_fixed(table, kind, parameter, estimate_function, force) ==
    [n \in DOMAIN table |->
        IF table[n].kind = kind /\ (~bounded_is_fixed(table[n][parameter]) \/ force)
        THEN [table[n] EXCEPT ![parameter] = WriteGuess(@, estimate_function[n])]
        ELSE table[n]]

\* the rows of one kind
OfKind(table, kind) == {n \in DOMAIN table : table[n].kind = kind}

\* nbb: the number of dust_continuum rows
CountKind(table, kind) == Cardinality(OfKind(table, kind))

starlight_guess(row, sp, bb) == FDiv(sp, bb)

dust_continuum_guess(row, some_flux, bb, nbb) == FDiv(FDiv(some_flux, bb), Flt(nbb, 1))

line_fwhm_guess(row, inst) ==
    IF ~within_segment(row.wavelength.val[1], inst) THEN Zero
    ELSE instrument_fwhm(inst, row.wavelength.val[1]).val[1]

amp_guess(row, fwhm, inst, sp) ==
    IF ~within_segment(row.wavelength.val[1], inst) THEN Zero
    ELSE FDiv(sp, fwhm)

GuessLineFwhm(table, inst, calc_line_fwhm) ==
    IF calc_line_fwhm
    THEN loop_over_non_fixed(table, "line", "fwhm",
                             [n \in OfKind(table, "line") |-> line_fwhm_guess(table[n], inst)], TRUE)
    ELSE table

GuessLinePower(table, inst, integrate_line_flux, some_flux, sp) ==
    IF integrate_line_flux
    THEN loop_over_non_fixed(table, "line", "power",
            [n \in OfKind(table, "line") |->
                amp_guess(table[n], line_fwhm_guess(table[n], inst), inst, sp)], FALSE)
    ELSE loop_over_non_fixed(table, "line", "power",
            [n \in OfKind(table, "line") |-> some_flux], FALSE)

GuessDustFeatures(table, some_flux) ==
    loop_over_non_fixed(table, "dust_feature", "power",
        [n \in OfKind(table, "dust_feature") |-> some_flux], FALSE)

GuessDustContinuum(table, some_flux, bb) ==
    loop_over_non_fixed(table, "dust_continuum", "tau",
        [n \in OfKind(table, "dust_continuum") |->
            dust_continuum_guess(table[n], some_flux, bb,
                                 CountKind(table, "dust_continuum"))], FALSE)

GuessStarlight(table, sp, bb) ==
    loop_over_non_fixed(table, "starlight", "tau",
                        [n \in OfKind(table, "starlight") |->
                            starlight_guess(table[n], sp, bb)], FALSE)

\* Model.guess: the table it leaves
guess(table, inst, integrate_line_flux, calc_line_fwhm, some_flux, sp, bb) ==
    GuessLineFwhm(
        GuessLinePower(
            GuessDustFeatures(
                GuessDustContinuum(GuessStarlight(table, sp, bb), some_flux, bb),
                some_flux),
            inst, integrate_line_flux, some_flux, sp),
        inst, calc_line_fwhm)

GuessInit ==
    /\ features \in GuessTables
    /\ fitter = NewFitter
    /\ ret = NoRet
    /\ call = Call("__init__", "", "", Zero, FALSE)

GuessCall(inst, zp1, integrate_line_flux, calc_line_fwhm, some_flux, sp, bb) ==
    /\ features' = guess(features, inst, integrate_line_flux, calc_line_fwhm,
                         some_flux, sp, bb)
    /\ call' = Call("guess", "", inst, zp1, calc_line_fwhm)
    /\ ret' = NoRet
    /\ UNCHANGED fitter

Guess ==
    \E inst \in Instruments, zp1 \in Redshifts,
       integrate_line_flux \in BOOLEAN, calc_line_fwhm \in BOOLEAN,
       some_flux \in FluxVals, sp \in FluxVals, bb \in BlackBodyVals :
        GuessCall(inst, zp1, integrate_line_flux, calc_line_fwhm, some_flux, sp, bb)

GuessSpec == GuessInit /\ [][Guess]_vars

\* C12 (as claimed): guess() leaves the stored value of every parameter
\* (tau, power, fwhm) that is marked fixed as it was, whatever the flags.
C12_GuessKeepsFixed ==
    [][call'.op = "guess" =>
        \A n \in DOMAIN features : \A col \in {"tau", "power", "fwhm"} :
            bounded_is_fixed(features[n][col]) =>
                features'[n][col] = features[n][col]]_vars

(***************************************************************************)
(* More properties of the Model (checked under Spec).                      *)
(***************************************************************************)
LeafNamed(model, n) == CHOOSE c \in Range(Leaves(model)) : c.name = n

\* the stddev parameter a line gets from the instrument at 1 + z = zp1
InstrumentStddev(table, n, inst, zp1) ==
    astropy_model_kwargs(n, <<"stddev">>,
        <<TupleDiv(
            TupleDiv(instrument_fwhm(inst, FMul(table[n].wavelength.val[1], zp1)), zp1),
            FwhmFactor)>>).params["stddev"]

\* C13: with use_instrument_fwhm a fit registers every line it does not
\* exclude with the instrument FWHM at the observed wavelength divided by
\* 1 + z, with the instrument's bounds and fixed flag, whatever the row
\* stores as fwhm; the fwhm of the fit result is written to the row.
C13_InstrumentOverride ==
    [][(call'.op = "fit" /\ ret'.err = "" /\ call'.use) =>
        \A n \in DOMAIN features :
            (features[n].kind = "line"
                /\ ~ShouldExclude(features, n, call'.inst, call'.zp1)) =>
                /\ ComponentNamed(fitter', n).params["stddev"]
                        = InstrumentStddev(features, n, call'.inst, call'.zp1)
                /\ features'[n].fwhm.val[1]
                        = FMul(LeafNamed(fitter'.model, n).params["stddev"].value,
                               FwhmFactor)]_vars

\* a line fitted with the instrument's free FWHM after the row had been
\* given another value by an earlier fit
C13_Witness ==
    /\ FitDone /\ call.use
    /\ "line" \in NamesOf(components(fitter).names)
    /\ ~ComponentNamed(fitter, "line").params["stddev"].fixed
    /\ features["line"].fwhm.val[1] # Pack["line"].fwhm.val[1]
    /\ LeafNamed(fitter.model, "line").params["stddev"].value
            # ComponentNamed(fitter, "line").params["stddev"].value

(***************************************************************************)
(* SamplesSpec: AstropyFitter.fit on data with non-finite samples.  The    *)
(* arrays given to the solver are kept in ret.names, the caller's arrays   *)
(* xz, yz, uncz in call.name.                                              *)
(***************************************************************************)
MaxSamples == 3

NaN == [m |-> -3, e |-> 0]

\* 1 / u as numpy computes it (1 / 0 is inf, with a warning)
Reciprocal(u) ==
    IF u = NaN THEN NaN
    ELSE IF IsInf(u) THEN Zero
    ELSE IF u = Zero THEN PosInf
    ELSE FDiv(Flt(1, 1), u)

Sample(x, y, unc) == [x |-> x, y |-> y, unc |-> unc]

SampleSet ==
    {Sample(Flt(6, 1), Flt(2, 1), Flt(1, 2)),
     Sample(Flt(7, 1), Flt(3, 1), Flt(1, 4)),
     Sample(NaN, Flt(2, 1), Flt(1, 2)),
     Sample(PosInf, Flt(2, 1), Flt(1, 2)),
     Sample(Flt(6, 1), NaN, Flt(1, 2)),
     Sample(Flt(6, 1), NegInf, Flt(1, 2)),
     Sample(Flt(8, 1), Flt(2, 1), Zero),
     Sample(Flt(8, 1), Flt(2, 1), NaN),
     Sample(Flt(9, 1), Flt(2, 1), PosInf)}

\* a[mask]: the entries of a where mask is true, in order
RECURSIVE Compress(_, _, _, _)
Compress(acc, a, mask, i) ==
    IF i > Len(a) THEN acc
    ELSE Compress(IF mask[i] THEN Append(acc, a[i]) ELSE acc, a, mask, i + 1)

Weights(uncz) == [i \in 1..Len(uncz) |-> Reciprocal(uncz[i])]

\* variant: the mask does not look at the weights
FiniteMask_NoWeight(xz, yz, w) ==
    [i \in 1..Len(xz) |-> IsFinite(xz[i]) /\ IsFinite(yz[i])]

\* mask = np.isfinite(xz) & np.isfinite(yz) & np.isfinite(w)
FiniteMask(xz, yz, w) ==
    [i \in 1..Len(xz) |-> IsFinite(xz[i]) /\ IsFinite(yz[i]) /\ IsFinite(w[i])]

\* the arguments xz[mask], yz[mask], w[mask] of the solver
Masked(xz, yz, w, mask) ==
    <<Compress(<<>>, xz, mask, 1), Compress(<<>>, yz, mask, 1), Compress(<<>>, w, mask, 1)>>

SolverArguments(xz, yz, w) == Masked(xz, yz, w, FiniteMask(xz, yz, w))

SamplesInit ==
    /\ features = Pack
    /\ fitter = finalize_model(register_starlight(NewFitter, "star",
                                   Pack["star"].temperature, Pack["star"].tau)).f
    /\ ret = NoRet
    /\ call = FitterCall("spectrum", <<<<>>, <<>>, <<>>>>)

\* the caller's arrays xz, yz, uncz grow by one sample
TakeSample ==
    \E s \in SampleSet :
        /\ Len(call.name[1]) < MaxSamples
        /\ call' = FitterCall("spectrum",
                <<Append(call.name[1], s.x), Append(call.name[2], s.y),
                  Append(call.name[3], s.unc)>>)
        /\ ret' = NoRet
        /\ UNCHANGED <<features, fitter>>

\* fit(xz, yz, uncz)
FitSamples ==
    \E w \in FitVals :
        /\ call' = FitterCall("fit", call.name)
        /\ ret' = [NoRet EXCEPT !.names =
                    SolverArguments(call.name[1], call.name[2], Weights(call.name[3]))]
        /\ fitter' = fit(fitter, w)
        /\ UNCHANGED features

SamplesNext ==
    \/ TakeSample
    \/ FitSamples

SamplesSpec == SamplesInit /\ [][SamplesNext]_vars

\* sample i of the arrays passed to fit has finite x, finite y and a finite
\* weight 1 / uncertainty
Usable(arrays, i) ==
    /\ arrays[1][i].m >= 0
    /\ arrays[2][i].m >= 0
    /\ arrays[3][i] # Zero /\ arrays[3][i] # NaN

OddRow ==
    Row("gas", Unused, Unused, Bounded(Zero, Zero, PosInf), Fixed(Flt(9, 1)),
        Fixed(Flt(5, 10)))

\* model.features.add_row(...) by the user
AddOddRow ==
    /\ "odd" \notin DOMAIN features
    /\ features' = [n \in DOMAIN features \cup {"odd"} |->
                        IF n = "odd" THEN OddRow ELSE features[n]]
    /\ call' = Call("add_row", "odd", "", Zero, FALSE)
    /\ ret' = NoRet
    /\ UNCHANGED fitter

KindNext ==
    \/ Fit
    \/ Ingest
    \/ Tabulate
    \/ AddOddRow

KindSpec == Init /\ [][KindNext]_vars

KnownKinds == AdditiveKinds \cup MultiplicativeKinds

\* C15: with a row of a kind that is none of the six, a model construction
\* fails with the model error: fit raises it (once the range check passed),
\* no Fitter replaces the one of the last fit, and the table stays as it is.
C15_UnknownKindFails ==
    [][(\E n \in DOMAIN features : features[n].kind \notin KnownKinds) =>
        /\ (call'.op = "fit" /\ ret'.err # "RangeError") =>
                ret'.err = "PAHFITModelError"
        /\ call'.op = "tabulate" => ret' = NoRet
        /\ call'.op \in {"fit", "tabulate"} =>
                (fitter' = fitter /\ features' = features)]_vars

\* a fit that failed on the added row, after rows before it in the table
\* had been registered, with the Fitter of an earlier fit still in place
C15_Witness ==
    /\ call.op = "fit"
    /\ ret.err = "PAHFITModelError"
    /\ {"star", "odd"} \subseteq DOMAIN features
    /\ fitter.model # NoModel
    /\ \E n \in DOMAIN features : features[n] # Pack[n] /\ n # "odd"

(***************************************************************************)
(* SubTableSpec: the Fitter is set up from any selection of rows of the    *)
(* pack and its results are ingested, as test_feature_parsing does.        *)
(***************************************************************************)
SubTables == {SubTable(keep) : keep \in SUBSET Names}

\* the first exception of the loops of _ingest_fit_result_to_features
RECURSIVE ResultError(_, _, _)
ResultError(f, names, i) ==
    IF i > Len(names) THEN ""
    ELSE IF get_result(f, names[i]).err # "" THEN get_result(f, names[i]).err
    ELSE ResultError(f, names, i + 1)

IngestError(f) ==
    IF components(f).err # "" THEN components(f).err
    ELSE ResultError(f, components(f).names, 1)

SubTableInit ==
    /\ features \in SubTables
    /\ fitter = NewFitter
    /\ ret = NoRet
    /\ call = Call("__init__", "", "", Zero, FALSE)

\* test_parsing: the Fitter is set up and its results are ingested
SetUpAndIngest ==
    \E inst \in Instruments, zp1 \in Redshifts, use \in BOOLEAN :
        \E made \in {construct_model(features, inst, zp1, use)} :
            /\ call' = Call("test_parsing", "", inst, zp1, use)
            /\ IF made.err # ""
               THEN /\ ret' = Failed(made.err)
                    /\ UNCHANGED <<features, fitter>>
               ELSE /\ fitter' = made.f
                    /\ ret' = Failed(IngestError(made.f))
                    /\ features' = IF IngestError(made.f) # "" THEN features
                                   ELSE ingest_fit_result_to_features(features, made.f)

SubTableSpec == SubTableInit /\ [][SetUpAndIngest]_vars

\* C16: for every selection of rows of the pack, setting up the Fitter and
\* ingesting its results completes or raises PAHFITModelError, nothing else.
C16_OnlyModelError ==
    call.op = "test_parsing" => ret.err \in {"", "PAHFITModelError"}

\* a table with a line and no continuum, whose line is out of range
C16_Witness ==
    /\ call.op = "test_parsing"
    /\ ret.err = "PAHFITModelError"
    /\ "line" \in DOMAIN features
    /\ "att" \in DOMAIN features

\* C17: a fit whose observed range does not fit the instrument fails at
\* the range check: no Fitter is constructed, the solver is not run, and
\* no row of the table changes.
C17_RangeCheckFirst ==
    [][(call'.op = "fit"
            /\ ~RangeIn(call'.name[1], call'.name[2], Segments(call'.inst))) =>
        /\ ret'.err = "RangeError"
        /\ fitter' = fitter
        /\ features' = features]_vars

\* a failed range check after an earlier fit, on a table that could not
\* have been made into a model either
C17_Witness ==
    /\ call.op = "fit"
    /\ ret.err = "RangeError"
    /\ fitter.model # NoModel
    /\ construct_model(features, call.inst, call.zp1, call.use).err # ""

(***************************************************************************)
(* The attenuation components of pahfit/component_models.py, evaluated on  *)
(* an array of wavelengths.  Sums and differences of the non-negative      *)
(* numbers that occur are rounded like the products and quotients above.   *)
(***************************************************************************)
One == Flt(1, 1)

\* x + y for x.e >= y.e: y is shifted under x; beyond the guard bits it is lost
FAddAligned(x, y) ==
    IF x.e - y.e > MantissaBits + 1 THEN x
    ELSE FRound(x.m * Pow2(x.e - y.e) + y.m, FALSE, y.e)

FAdd(x, y) ==
    IF x = Zero THEN y
    ELSE IF y = Zero THEN x
    ELSE IF x.e < y.e THEN FAddAligned(y, x)
    ELSE FAddAligned(x, y)

\* x - y for x >= y > 0
FSubAligned(x, y) ==
    IF x.e - y.e > MantissaBits + 1 THEN x
    ELSE FRound(x.m * Pow2(x.e - y.e) - y.m, FALSE, y.e)

\* |x - y|
FAbsDiff(x, y) ==
    IF y = Zero THEN x
    ELSE IF x = Zero THEN y
    ELSE IF FLeq(y, x) THEN FSubAligned(x, y)
    ELSE FSubAligned(y, x)

Square(x) == FMul(x, x)

\* n / d as numpy divides arrays: 0 / 0 is nan and x / 0 is inf, with a
\* warning and no exception
Quotient(n, d) ==
    IF d = Zero THEN (IF n = Zero THEN NaN ELSE PosInf)
    ELSE FDiv(n, d)

\* the terms of the exponential series that are summed
ExpTerms == 12

RECURSIVE ExpSeries(_, _, _, _)
ExpSeries(t, term, sum, k) ==
    IF k > ExpTerms THEN sum
    ELSE ExpSeries(t, FDiv(FMul(term, t), Flt(k, 1)), FAdd(sum, term), k + 1)

\* np.exp(-1.0 * t) for t >= 0, as 1 / (1 + t + t^2/2! + ...)
ExpNeg(t) == FDiv(One, ExpSeries(t, One, Zero, 1))

\* (1.0 - np.exp(-1.0 * tau_x)) / tau_x
MixedAttenuation(tau_x) == Quotient(FAbsDiff(One, ExpNeg(tau_x)), tau_x)

\* astropy's Drude1D(amplitude, x_0, fwhm) at x
Drude1D(x, amplitude, x_0, fwhm) ==
    FDiv(FMul(amplitude, Square(FDiv(fwhm, x_0))),
         FAdd(Square(FAbsDiff(FDiv(x, x_0), FDiv(x_0, x))), Square(FDiv(fwhm, x_0))))

\* the wavelengths an array is made of: three knots of the kvt table and
\* one wavelength beyond its end
Wavelengths == {Flt(8, 1), Flt(97, 10), Flt(12, 1), Flt(18, 1)}

\* max(kvt_wav)
kvt_wav_max == Flt(127, 10)

\* kvt_int at the knots 8.0, 9.7 and 12.0, where the interpolation over
\* (kvt_wav, kvt_int) returns the tabulated value
intfunc(x) ==
    IF x = Flt(8, 1) THEN Flt(6, 100)
    ELSE IF x = Flt(97, 10) THEN Flt(99, 100)
    ELSE Flt(13, 100)

\* nf = Drude1D(amplitude=0.4, x_0=18.0, fwhm=0.247 * 18.0)
nf(x) == Drude1D(x, Flt(4, 10), Flt(18, 1), FMul(Flt(247, 1000), Flt(18, 1)))

\* (9.7 / in_x) ** 1.7 at the four wavelengths
PowerLaw(x) ==
    IF x = Flt(8, 1) THEN Flt(13876, 10000)
    ELSE IF x = Flt(97, 10) THEN One
    ELSE IF x = Flt(12, 1) THEN Flt(6965, 10000)
    ELSE Flt(3496, 10000)

\* in_x[in_x < max(kvt_wav)]
in_x_spline(in_x) == SelectSeq(in_x, LAMBDA x : ~FLeq(kvt_wav_max, x))

\* in_x[in_x >= max(kvt_wav)]
in_x_drude(in_x) == SelectSeq(in_x, LAMBDA x : FLeq(kvt_wav_max, x))

\* ext = np.concatenate([new_spline_y, nf(in_x_drude)]): the wavelengths
\* below max(kvt_wav) come first, whatever the order of in_x
ext(in_x) ==
    [i \in 1..Len(in_x_spline(in_x)) |-> intfunc(in_x_spline(in_x)[i])]
        \o [i \in 1..Len(in_x_drude(in_x)) |-> nf(in_x_drude(in_x)[i])]

\* S07_attenuation.kvt: y = (1.0 - beta) * ext + beta * (9.7 / in_x) ** 1.7
kvt(in_x) ==
    [i \in 1..Len(in_x) |->
        FAdd(FMul(Flt(9, 10), ext(in_x)[i]), FMul(Flt(1, 10), PowerLaw(in_x[i])))]

\* np.full((len(in_x)), v)
Full(n, v) == [i \in 1..n |-> v]

\* variant: the quotient is evaluated for every tau_si
S07_attenuation_NoGuard(in_x, tau_si) ==
    IF in_x = <<>> THEN Failed("ValueError")
    ELSE [NoRet EXCEPT !.names =
            [i \in 1..Len(in_x) |-> MixedAttenuation(FMul(tau_si, kvt(in_x)[i]))]]

\* S07_attenuation.evaluate(in_x, tau_si); kvt takes min(in_x), which
\* raises ValueError on an empty array
S07_attenuation(in_x, tau_si) ==
    IF tau_si = Zero THEN [NoRet EXCEPT !.names = Full(Len(in_x), One)]
    ELSE IF in_x = <<>> THEN Failed("ValueError")
    ELSE [NoRet EXCEPT !.names =
            [i \in 1..Len(in_x) |-> MixedAttenuation(FMul(tau_si, kvt(in_x)[i]))]]

\* variant: the quotient is evaluated for every tau
att_Drude1D_NoGuard(x, tau, x_0, fwhm) ==
    [NoRet EXCEPT !.names =
        [i \in 1..Len(x) |-> MixedAttenuation(FMul(tau, Drude1D(x[i], One, x_0, fwhm)))]]

\* att_Drude1D.evaluate(x, tau, x_0, fwhm)
att_Drude1D(x, tau, x_0, fwhm) ==
    IF tau = Zero THEN [NoRet EXCEPT !.names = Full(Len(x), Zero)]
    ELSE [NoRet EXCEPT !.names =
            [i \in 1..Len(x) |-> MixedAttenuation(FMul(tau, Drude1D(x[i], One, x_0, fwhm)))]]

(***************************************************************************)
(* AttenuationSpec: an array of wavelengths is put together and the two    *)
(* attenuation components are evaluated on it.  call.name is the array     *)
(* followed by the parameters of the evaluation.                           *)
(***************************************************************************)
MaxWavelengths == 3

Taus == {Zero, Flt(1, 2), Flt(2, 1)}
Centers == {Flt(97, 10), Flt(18, 1)}
Widths == {Flt(4, 1), Flt(8, 1)}

AttenuationInit ==
    /\ features = SubTable({})
    /\ fitter = NewFitter
    /\ ret = NoRet
    /\ call = FitterCall("array", <<<<>>, <<>>>>)

\* the array grows by one wavelength
TakeWavelength ==
    \E x \in Wavelengths :
        /\ Len(call.name[1]) < MaxWavelengths
        /\ call' = FitterCall("array", <<Append(call.name[1], x), <<>>>>)
        /\ ret' = NoRet
        /\ UNCHANGED <<features, fitter>>

EvaluateS07 ==
    \E tau_si \in Taus :
        /\ call' = FitterCall("S07_attenuation", <<call.name[1], <<tau_si>>>>)
        /\ ret' = S07_attenuation(call.name[1], tau_si)
        /\ UNCHANGED <<features, fitter>>

EvaluateDrude ==
    \E tau \in Taus, x_0 \in Centers, fwhm \in Widths :
        /\ call' = FitterCall("att_Drude1D", <<call.name[1], <<tau, x_0, fwhm>>>>)
        /\ ret' = att_Drude1D(call.name[1], tau, x_0, fwhm)
        /\ UNCHANGED <<features, fitter>>

AttenuationNext ==
    \/ TakeWavelength
    \/ EvaluateS07
    \/ EvaluateDrude

AttenuationSpec == AttenuationInit /\ [][AttenuationNext]_vars

\* C18: S07_attenuation evaluated with tau_sil = 0 returns an array of the
\* length of the input whose every element is exactly 1.0, whatever the
\* wavelengths; the quotient, which is nan at tau = 0, is not evaluated.
C18_ZeroTauIsOne ==
    (call.op = "S07_attenuation" /\ call.name[2][1] = Zero) =>
        /\ ret.err = ""
        /\ Len(ret.names) = Len(call.name[1])
        /\ \A i \in 1..Len(ret.names) : ret.names[i] = One

\* evaluated with tau_sil = 0 on a full array that mixes wavelengths of the
\* table with one beyond it
C18_Witness ==
    /\ call.op = "S07_attenuation"
    /\ call.name[2][1] = Zero
    /\ Len(call.name[1]) = MaxWavelengths
    /\ Flt(18, 1) \in {call.name[1][i] : i \in 1..Len(call.name[1])}
    /\ Flt(97, 10) \in {call.name[1][i] : i \in 1..Len(call.name[1])}

\* C19: att_Drude1D evaluated with tau = 0 returns an array of the length
\* of the input whose every element is exactly 0.0, whatever the
\* wavelengths, x_0 and fwhm.
C19_ZeroTauIsZero ==
    (call.op = "att_Drude1D" /\ call.name[2][1] = Zero) =>
        /\ ret.err = ""
        /\ Len(ret.names) = Len(call.name[1])
        /\ \A i \in 1..Len(ret.names) : ret.names[i] = Zero

\* evaluated with tau = 0 on a full array that holds the centre x_0
C19_Witness ==
    /\ call.op = "att_Drude1D"
    /\ call.name[2][1] = Zero
    /\ Len(call.name[1]) = MaxWavelengths
    /\ call.name[2][2] \in {call.name[1][i] : i \in 1..Len(call.name[1])}

\* C20: clear() can be called in every state of the session and leaves the
\* state of a freshly constructed Fitter (no additive and no multiplicative
\* components, no name -> kind entries, no model).  From then on
\* finalize_model fails for lack of components as long as nothing is
\* registered, and get_result fails for every name as long as no model is
\* finalized; only a finalize_model over registered components ends that.
C20_ClearResets ==
    /\ [](ENABLED Clear)
    /\ [][/\ call'.op = "clear" => (fitter' = NewFitter /\ ret'.err = "")
          /\ (fitter = NewFitter /\ call'.op = "finalize_model") =>
                (ret'.err = "PAHFITModelError" /\ fitter' = NewFitter)
          /\ (fitter.model = NoModel /\ call'.op = "get_result") =>
                (ret'.err # "" /\ fitter' = fitter)
          /\ (fitter.model = NoModel /\ fitter'.model # NoModel) =>
                /\ call'.op = "finalize_model"
                /\ ret'.err = ""
                /\ fitter.additive_components # <<>>]_vars

\* the session just after a clear()
C20_Witness ==
    /\ call.op = "clear"
    /\ fitter = NewFitter
    /\ ret = NoRet

(***************************************************************************)
(* EditSpec: numbers of the features table are edited by hand between two  *)
(* constructions of a Fitter (the outline of                               *)
(* test_feature_table_manual_edit).  fitter is the Fitter that the last    *)
(* construction returned.                                                  *)
(***************************************************************************)
\* the entries that are edited, and the numbers written there
Editable == {<<"star", "temperature">>, <<"pah", "fwhm">>}
EditVals == {Flt(4000, 1), Flt(45, 100)}

\* features.loc[name][column][0] = value, the mask left as it is
EditFeature ==
    \E e \in Editable, v \in EditVals :
        /\ e[1] \in DOMAIN features
        /\ features' = [features EXCEPT ![e[1]][e[2]].val[1] = v]
        /\ features' # features
        /\ call' = Call("edit", e, "", Zero, FALSE)
        /\ ret' = NoRet
        /\ UNCHANGED fitter

\* self.fitter = self._construct_model(inst, z, use_instrument_fwhm)
ConstructModel ==
    \E inst \in Instruments, zp1 \in Redshifts, use \in BOOLEAN :
        \E made \in {construct_model(features, inst, zp1, use)} :
            /\ call' = Call("_construct_model", "", inst, zp1, use)
            /\ ret' = Failed(made.err)
            /\ fitter' = IF made.err = "" THEN made.f ELSE fitter
            /\ UNCHANGED features

EditNext ==
    \/ EditFeature
    \/ ConstructModel

EditSpec == Init /\ [][EditNext]_vars

\* what registering row n alone, as the table has it now, sets up
RowAlone(table, n, inst, zp1, use) ==
    ComponentNamed(RegisterRow(NewFitter, n, table[n], inst, zp1, use).f, n)

\* C21: a construction sets up a new session from the table as it is at
\* that moment: its components are exactly the rows the exclusion of this
\* call keeps, each with the numbers the table holds now, whatever the
\* earlier session held; an edit of the table leaves the Fitter that was
\* constructed before as it was.
C21_FreshSession ==
    [][/\ call'.op = "edit" => fitter' = fitter
       /\ (call'.op = "_construct_model" /\ ret'.err = "") =>
            /\ DOMAIN fitter'.component_types =
                    DOMAIN features \ excluded_features(features, call'.inst, call'.zp1)
            /\ Len(fitter'.additive_components) + Len(fitter'.multiplicative_components)
                    = Cardinality(DOMAIN fitter'.component_types)
            /\ \A n \in DOMAIN fitter'.component_types :
                    ComponentNamed(fitter', n) =
                        RowAlone(features, n, call'.inst, call'.zp1, call'.use)]_vars

\* a second session without the line of the first one, holding an edited
\* width
C21_Witness ==
    /\ call.op = "_construct_model"
    /\ ret.err = ""
    /\ "line" \notin DOMAIN fitter.component_types
    /\ features["pah"].fwhm.val[1] = Flt(45, 100)
    /\ features["star"].temperature.val[1] = Flt(4000, 1)

(***************************************************************************)
(* CycleSpec: a Model that is guessed, fitted, ingested and tabulated in   *)
(* any order.                                                              *)
(***************************************************************************)
\* a table of four rows; its line lies below every segment in the rest
\* frame and inside them at redshift 0.5, and the user has narrowed down
\* its power and its width
CyclePack ==
    [n \in {"cont", "line", "pah", "abs"} |->
        IF n = "line"
        THEN [Pack[n] EXCEPT !.wavelength = Fixed(Flt(4, 1)),
                             !.power = Bounded(Flt(1, 2), Zero, Flt(1, 1)),
                             !.fwhm = Bounded(Flt(34, 100), Flt(3, 10), Flt(4, 10))]
        ELSE Pack[n]]

CycleInit ==
    /\ features = CyclePack
    /\ fitter = NewFitter
    /\ ret = NoRet
    /\ call = Call("__init__", "", "", Zero, FALSE)

\* Model.guess on one spectrum, with either setting of calc_line_fwhm
CycleGuess ==
    \E inst \in Instruments, calc_line_fwhm \in BOOLEAN, flux \in FluxVals :
        GuessCall(inst, Flt(3, 2), FALSE, calc_line_fwhm, flux, flux, One)

\* Model.fit on one spectrum that every instrument covers
CycleFit ==
    \E inst \in Instruments, zp1 \in Redshifts, use \in BOOLEAN :
        FitCall(inst, zp1, use, <<Flt(6, 1), Flt(9, 1)>>, Flt(3, 1))

CycleNext ==
    \/ CycleGuess
    \/ CycleFit
    \/ Ingest
    \/ Tabulate

CycleSpec == CycleInit /\ [][CycleNext]_vars

\* C22: the model operations leave the rows of the table in place: the same
\* names, each of the same kind, after every guess, fit, ingest and
\* tabulate.
C22_RowsStay ==
    [][/\ DOMAIN features' = DOMAIN features
       /\ \A n \in DOMAIN features :
            /\ features'[n].kind = features[n].kind
            /\ DOMAIN features'[n] = DOMAIN features[n]]_vars

\* a table that was guessed and fitted without its line, then tabulated
C22_Witness ==
    /\ call.op = "tabulate"
    /\ fitter.model # NoModel
    /\ "line" \notin DOMAIN fitter.component_types
    /\ features["pah"].power # CyclePack["pah"].power
    /\ features["line"].fwhm # CyclePack["line"].fwhm

\* lower <= value <= upper for a parameter that is in use and not fixed
\* (an infinite bound leaves that side open)
InBounds(t) ==
    (~t.mask[1] /\ ~is_fixed(t)) =>
        /\ t.mask[2] \/ FLeq(t.val[2], t.val[1])
        /\ t.mask[3] \/ FLeq(t.val[1], t.val[3])

\* C23 (as claimed): from a table whose non-fixed parameters lie within
\* their bounds, every non-fixed parameter of every row lies within its
\* bounds after any sequence of guess and fit calls.
C23_WithinBounds ==
    \A n \in DOMAIN features : \A col \in Columns : InBounds(features[n][col])

(***************************************************************************)
(* MetaSpec: guess and fit with the metadata of the table.  In this        *)
(* specification features is the Features object, [table, meta]; an entry  *)
(* of meta is a string or a number (the redshift as 1 + z).                *)
(***************************************************************************)
StrVal(str) == [str |-> str, num |-> Zero]
NumVal(num) == [str |-> "", num |-> num]
NoVal == [str |-> "", num |-> NoneBound]

\* spec.meta["instrument"] (None: ""), the redshift argument and
\* spec.redshift (None: NoneBound)
SpecInstruments == Instruments \cup {""}
RedshiftArguments == {NoneBound, Flt(3, 2)}
SpecRedshifts == {NoneBound, Flt(5, 4)}

\* _parse_instrument_and_redshift: [err, inst, zp1]
parse_instrument_and_redshift(spec_instrument, spec_redshift, redshift) ==
    [err |-> IF spec_instrument = "" THEN "PAHFITModelError" ELSE "",
     inst |-> spec_instrument,
     zp1 |-> IF redshift # NoneBound THEN redshift
             ELSE IF spec_redshift # NoneBound THEN spec_redshift
             ELSE One]

\* the two assignments to features.meta that guess and fit start with
WriteMeta(meta, inst, zp1) ==
    [meta EXCEPT !.redshift = StrVal(inst), !.instrument = NumVal(zp1)]

MetaInit ==
    /\ features = [table |-> SubTable({"cont", "att"}),
                   meta |-> [redshift |-> NoVal, instrument |-> NoVal]]
    /\ fitter = NewFitter
    /\ ret = NoRet
    /\ call = Call("__init__", "", "", Zero, FALSE)

\* Model.guess(spec, redshift, calc_line_fwhm=...)
MetaGuess ==
    \E spec_instrument \in SpecInstruments, spec_redshift \in SpecRedshifts,
       redshift \in RedshiftArguments, calc_line_fwhm \in BOOLEAN :
        \E p \in {parse_instrument_and_redshift(spec_instrument, spec_redshift, redshift)} :
            /\ call' = Call("guess", "", p.inst, p.zp1, calc_line_fwhm)
            /\ ret' = Failed(p.err)
            /\ features' =
                IF p.err # "" THEN features
                ELSE [table |-> guess(features.table, p.inst, FALSE, calc_line_fwhm,
                                      Flt(2, 1), Flt(2, 1), One),
                      meta |-> WriteMeta(features.meta, p.inst, p.zp1)]
            /\ UNCHANGED fitter

\* what Model.fit leaves once instrument and redshift are known:
\* [err, features, fitter]
FitWithMeta(F, f, inst, zp1, use, x, w) ==
    IF ~check_range(x[1], x[2], inst)
    THEN [err |-> "RangeError", features |-> F, fitter |-> f]
    ELSE IF construct_model(F.table, inst, zp1, use).err # ""
    THEN [err |-> construct_model(F.table, inst, zp1, use).err,
          features |-> F, fitter |-> f]
    ELSE [err |-> "",
          features |-> [F EXCEPT !.table =
                            ingest_fit_result_to_features(F.table,
                                fit(construct_model(F.table, inst, zp1, use).f, w))],
          fitter |-> fit(construct_model(F.table, inst, zp1, use).f, w)]

\* Model.fit(spec, redshift, use_instrument_fwhm=...)
MetaFit ==
    \E spec_instrument \in SpecInstruments, spec_redshift \in SpecRedshifts,
       redshift \in RedshiftArguments, use \in BOOLEAN, x \in Spectra :
        \E p \in {parse_instrument_and_redshift(spec_instrument, spec_redshift, redshift)} :
            /\ call' = Call("fit", x, p.inst, p.zp1, use)
            /\ IF p.err # ""
               THEN /\ ret' = Failed(p.err)
                    /\ UNCHANGED <<features, fitter>>
               ELSE \E r \in {FitWithMeta(
                                [features EXCEPT !.meta = WriteMeta(@, p.inst, p.zp1)],
                                fitter, p.inst, p.zp1, use, x, Flt(3, 1))} :
                        /\ ret' = Failed(r.err)
                        /\ features' = r.features
                        /\ fitter' = r.fitter

MetaNext ==
    \/ MetaGuess
    \/ MetaFit

MetaSpec == MetaInit /\ [][MetaNext]_vars

\* C24 (as claimed): after guess() or fit() has returned, meta['redshift']
\* is the redshift that call used and meta['instrument'] is the instrument
\* identifier it used.
C24_MetaRecordsCall ==
    (call.op \in {"guess", "fit"} /\ ret.err = "") =>
        /\ features.meta.redshift = NumVal(call.zp1)
        /\ features.meta.instrument = StrVal(call.inst)

(***************************************************************************)
(* InfoSpec: the solver's diagnostic.  ret.dict is what the caller can     *)
(* read after a call: Model.fit_info and the fit_info of Model.fitter      *)
(* ("None" while there is none); ret.names is what was printed or          *)
(* returned as text.                                                       *)
(***************************************************************************)
\* fit.fit_info["message"] of LevMarLSQFitter: converged, or maxiter reached
SolverMessages == {"converged", "maxiter reached"}

Info(fit_info, fitter_fit_info) ==
    [fit_info |-> fit_info, fitter_fit_info |-> fitter_fit_info]

\* Model._status_message
status_message(fit_info) ==
    IF fit_info = "None" THEN "Model features (not fitted)" ELSE "Model features (fitted)"

InfoInit ==
    /\ features = SubTable({"cont", "att"})
    /\ fitter = NewFitter
    /\ ret = [NoRet EXCEPT !.dict = Info("None", "None")]
    /\ call = Call("__init__", "", "", Zero, FALSE)

\* Model.fit(spec, verbose=..., maxiter=...): AstropyFitter.fit keeps
\* fit.fit_info on the Fitter and prints the message when verbose;
\* call.name is <<verbose, the solver's message>>
InfoFit ==
    \E inst \in Instruments, zp1 \in Redshifts, use \in BOOLEAN, x \in Spectra,
       verbose \in BOOLEAN, message \in SolverMessages :
        \E r \in {FitWithMeta([table |-> features], fitter, inst, zp1, use, x, Flt(3, 1))} :
            /\ call' = Call("fit", <<verbose, message>>, inst, zp1, use)
            /\ features' = r.features.table
            /\ fitter' = r.fitter
            /\ ret' = [err |-> r.err,
                       names |-> IF r.err = "" /\ verbose THEN <<message>> ELSE <<>>,
                       dict |-> Info(ret.dict.fit_info,
                                     IF r.err = "" THEN message
                                     ELSE ret.dict.fitter_fit_info)]

\* repr(model): the status message
StatusMessage ==
    /\ call' = Call("_status_message", "", "", Zero, FALSE)
    /\ ret' = [ret EXCEPT !.err = "", !.names = <<status_message(ret.dict.fit_info)>>]
    /\ UNCHANGED <<features, fitter>>

InfoNext ==
    \/ InfoFit
    \/ StatusMessage

InfoSpec == InfoInit /\ [][InfoNext]_vars

\* C25 (as claimed): after a completed Model.fit the Model holds the
\* fit_info of that fit, whatever verbose and the solver's message are, and
\* the status message reports the model as fitted from then on.
C25_FitInfoSurfaced ==
    /\ (call.op = "fit" /\ ret.err = "") => ret.dict.fit_info = call.name[2]
    /\ (call.op = "_status_message" /\ fitter.model # NoModel) =>
            ret.names = <<"Model features (fitted)">>

(***************************************************************************)
(* SaveSpec: Model.save and Model.from_saved.  The ECSV file holds, for    *)
(* every row, its strings and one text field per element of a parameter    *)
(* triple: empty for a masked element, "inf" for infinity, a decimal of    *)
(* DecimalDigits significant digits for a number (17 digits for the 53     *)
(* bits of the code, enough to read the same number back).  features is    *)
(* the Features object, [table, meta], as in MetaSpec.                     *)
(***************************************************************************)
DecimalDigits == 4

Pow10(k) == 10 ^ k

\* the integer nearest to m * 2^e * 10^j
Scaled(x, j) ==
    IF j >= 0
    THEN IF x.e >= 0 THEN x.m * Pow2(x.e) * Pow10(j)
         ELSE (2 * x.m * Pow10(j) + Pow2(-x.e)) \div (2 * Pow2(-x.e))
    ELSE IF x.e >= 0 THEN (2 * x.m * Pow2(x.e) + Pow10(-j)) \div (2 * Pow10(-j))
         ELSE (2 * x.m + Pow2(-x.e) * Pow10(-j)) \div (2 * Pow2(-x.e) * Pow10(-j))

\* the scales 10^-j a decimal of the file can have
Scales == (-4)..5

\* a positive number as a decimal of d significant digits: digits * 10^-j
ToDecimalDigits(x, d) ==
    [digits |-> Scaled(x, CHOOSE j \in Scales :
                            /\ Scaled(x, j) >= Pow10(d - 1)
                            /\ j - 1 \in Scales => Scaled(x, j - 1) < Pow10(d - 1)),
     scale |-> CHOOSE j \in Scales :
                    /\ Scaled(x, j) >= Pow10(d - 1)
                    /\ j - 1 \in Scales => Scaled(x, j - 1) < Pow10(d - 1)]

\* variant: the numbers are written as they are displayed, with two digits
ToDecimal_TwoDigits(x) == ToDecimalDigits(x, 2)

ToDecimal(x) == ToDecimalDigits(x, DecimalDigits)

\* the float nearest to the decimal
FromDecimal(dec) ==
    IF dec.scale >= 0 THEN Flt(dec.digits, Pow10(dec.scale))
    ELSE Flt(dec.digits * Pow10(-dec.scale), 1)

\* one text field of the file
MaskedField == [text |-> "", dec |-> [digits |-> 0, scale |-> 0]]
WriteNumber(x) ==
    IF x = PosInf THEN [text |-> "inf", dec |-> [digits |-> 0, scale |-> 0]]
    ELSE IF x = NoneBound THEN [text |-> "null", dec |-> [digits |-> 0, scale |-> 0]]
    ELSE IF x = Zero THEN [text |-> "0.0", dec |-> [digits |-> 0, scale |-> 0]]
    ELSE [text |-> "decimal", dec |-> ToDecimal(x)]

ReadNumber(field) ==
    IF field.text = "inf" THEN PosInf
    ELSE IF field.text = "null" THEN NoneBound
    ELSE IF field.text = "0.0" THEN Zero
    ELSE FromDecimal(field.dec)

WriteTriple(t) ==
    [i \in 1..3 |-> IF t.mask[i] THEN MaskedField ELSE WriteNumber(t.val[i])]

ReadTriple(fields) ==
    [val |-> [i \in 1..3 |-> IF fields[i].text = "" THEN Zero ELSE ReadNumber(fields[i])],
     mask |-> [i \in 1..3 |-> fields[i].text = ""]]

WriteMetaValue(v) == [str |-> v.str, num |-> WriteNumber(v.num)]
ReadMetaValue(v) == [str |-> v.str, num |-> ReadNumber(v.num)]

\* Features.write(fn, format="ascii.ecsv")
WriteFeatures(F) ==
    [table |-> [n \in DOMAIN F.table |->
                    [c \in DOMAIN F.table[n] |->
                        IF c = "kind" THEN F.table[n][c] ELSE WriteTriple(F.table[n][c])]],
     meta |-> [k \in DOMAIN F.meta |-> WriteMetaValue(F.meta[k])]]

\* Features.read(saved_model_file, format="ascii.ecsv")
ReadFeatures(file) ==
    [table |-> [n \in DOMAIN file.table |->
                    [c \in DOMAIN file.table[n] |->
                        IF c = "kind" THEN file.table[n][c]
                        ELSE ReadTriple(file.table[n][c])]],
     meta |-> [k \in DOMAIN file.meta |-> ReadMetaValue(file.meta[k])]]

\* the file name extensions that are tried
Extensions == {"ecsv", "fits"}

SaveInit ==
    /\ features = [table |-> Pack, meta |-> [redshift |-> NoVal, instrument |-> NoVal]]
    /\ fitter = NewFitter
    /\ ret = NoRet
    /\ call = Call("__init__", "", "", Zero, FALSE)

\* Model.fit on a spectrum at redshift 0 or 0.5
SaveFit ==
    \E inst \in Instruments, zp1 \in Redshifts, w \in FitVals :
        \E r \in {FitWithMeta([features EXCEPT !.meta = WriteMeta(@, inst, zp1)],
                              fitter, inst, zp1, FALSE, <<Flt(6, 1), Flt(9, 1)>>, w)} :
            /\ call' = Call("fit", "", inst, zp1, FALSE)
            /\ ret' = Failed(r.err)
            /\ features' = r.features
            /\ fitter' = r.fitter

\* Model.save(fn): ret.names is the file that was written, call.name the
\* Features object that was saved
Save ==
    \E suffix \in Extensions :
        /\ call.op # "save"
        /\ call' = Call("save", features, suffix, Zero, FALSE)
        /\ ret' = IF suffix # "ecsv" THEN Failed("NotImplementedError")
                  ELSE [NoRet EXCEPT !.names = <<WriteFeatures(features)>>]
        /\ UNCHANGED <<features, fitter>>

\* Model.from_saved(fn) of the file just saved: a new Model
Load ==
    /\ call.op = "save"
    /\ ret.err = ""
    /\ call' = Call("from_saved", call.name, "ecsv", Zero, FALSE)
    /\ features' = ReadFeatures(ret.names[1])
    /\ fitter' = NewFitter
    /\ ret' = NoRet

SaveNext ==
    \/ SaveFit
    \/ Save
    \/ Load

SaveSpec == SaveInit /\ [][SaveNext]_vars

\* the same value, bounds and masked or infinite status (what lies under a
\* mask does not count)
SameTriple(s, t) ==
    /\ s.mask = t.mask
    /\ \A i \in 1..3 : ~s.mask[i] => s.val[i] = t.val[i]

Registers(table, instrumentname, zp1, use_instrument_fwhm) ==
    RegisterRows([err |-> "", f |-> NewFitter], table,
                 DOMAIN table \ excluded_features(table, instrumentname, zp1),
                 1, instrumentname, zp1, use_instrument_fwhm).f

\* C27 (as claimed): from a table whose populated fwhm values are positive,
\* every width that a fit or a tabulate passes to a register call is
\* positive (fwhm of a dust feature or an absorption, fwhm and hence stddev
\* of a line), after any sequence of guess, fit and tabulate calls.
C27_NoDegenerateWidth ==
    [][(call'.op \in {"fit", "tabulate"} /\ ret'.err # "RangeError") =>
        \A c \in AllComponents(Registers(features, call'.inst, call'.zp1, call'.use)) :
            \A p \in DOMAIN c.params \cap {"fwhm", "stddev"} :
                c.params[p].value # Zero]_vars

(***************************************************************************)
(* LineFluxSpec: the line power that guess() integrates from the data      *)
(* (integrate_line_flux=True).  The rest frame spectrum (xz, yz) is put    *)
(* together sample by sample; wavelengths are whole ticks and fluxes whole *)
(* signed counts, so that the window, the trapezoid sum and the continuum  *)
(* estimate are exact.  A signed number is a sign and a magnitude.         *)
(***************************************************************************)
TicksPerMicron == 20
MaxFluxSamples == 3

\* xz, increasing, and yz
GridTicks == {138, 140, 142, 146}
FluxCounts == {-2, 0, 3}

\* rest wavelengths of the line: 7 micron and 15 micron
LineTicks == {140, 300}

Signed(neg, abs) == [neg |-> neg, abs |-> abs]

Micron(t) == Flt(t, TicksPerMicron)

\* the whole number of ticks a width or the wavelength of a line is
InTicks(f) == CHOOSE t \in (0..TicksPerMicron) \cup LineTicks : Micron(t) = f

\* xz_window = (xz > wmin) & (xz < wmax), as the indices selected
xz_window(xz, w, fwhm) ==
    {i \in 1..Len(xz) : xz[i] > w - (3 * fwhm) \div 2 /\ xz[i] < w + (3 * fwhm) \div 2}

\* a[xz_window]
Windowed(a, window) ==
    [k \in 1..Cardinality(window) |->
        a[CHOOSE i \in window : Cardinality({j \in window : j <= i}) = k]]

\* twice integrate.trapezoid(y, x)
RECURSIVE trapezoid(_, _, _)
trapezoid(y, x, i) ==
    IF i >= Len(x) THEN 0
    ELSE (y[i] + y[i + 1]) * (x[i + 1] - x[i]) + trapezoid(y, x, i + 1)

\* twice (ypoints[0] + ypoints[-1]) / 2 * (xpoints[-1] - xpoints[0])
continuum(xpoints, ypoints) ==
    (ypoints[1] + ypoints[Len(ypoints)]) * (xpoints[Len(xpoints)] - xpoints[1])

\* twice power_guess: the continuum is subtracted where it is below the
\* integral
Subtracted(integral, cont) ==
    IF cont < integral THEN integral - cont ELSE integral

power_guess(xpoints, ypoints) ==
    IF Len(xpoints) >= 2
    THEN Subtracted(trapezoid(ypoints, xpoints, 1), continuum(xpoints, ypoints))
    ELSE 0

\* power_guess / fwhm
OverFwhm(twice, fwhm) ==
    Signed(twice < 0,
           FDiv(Flt(IF twice < 0 THEN -twice ELSE twice, 2 * TicksPerMicron), fwhm))

\* amp_guess(row, line_fwhm_guess(row)) on the spectrum (xz, yz); w is
\* row["wavelength"][0] in ticks
amp_guess_integral(w, inst, xz, yz) ==
    IF ~within_segment(Micron(w), inst) THEN Signed(FALSE, Zero)
    ELSE OverFwhm(
            power_guess(
                Windowed(xz, xz_window(xz, w, InTicks(instrument_fwhm(inst, Micron(w)).val[1]))),
                Windowed(yz, xz_window(xz, w, InTicks(instrument_fwhm(inst, Micron(w)).val[1])))),
            instrument_fwhm(inst, Micron(w)).val[1])

\* a table of one line whose power is free
LineRow(w) ==
    [kind |-> "line", temperature |-> Unused, tau |-> Unused,
     power |-> Bounded(Signed(FALSE, Zero), Signed(FALSE, Zero), PosInf),
     wavelength |-> Fixed(Micron(w)), fwhm |-> Bounded(Flt(1, 10), Flt(1, 20), Flt(1, 2))]

LineFluxInit ==
    /\ features \in {[line |-> LineRow(w)] : w \in LineTicks}
    /\ fitter = NewFitter
    /\ ret = NoRet
    /\ call = FitterCall("spectrum", <<<<>>, <<>>>>)

\* the spectrum grows by one sample at a longer wavelength
TakeFluxSample ==
    \E x \in GridTicks, y \in FluxCounts :
        /\ call.op = "spectrum"
        /\ Len(call.name[1]) < MaxFluxSamples
        /\ \A i \in 1..Len(call.name[1]) : call.name[1][i] < x
        /\ call' = FitterCall("spectrum", <<Append(call.name[1], x), Append(call.name[2], y)>>)
        /\ UNCHANGED <<features, fitter, ret>>

\* guess(spec, integrate_line_flux=True) at redshift 0: the loop over the
\* lines whose power is not fixed
GuessLineFlux ==
    \E inst \in Instruments, w \in LineTicks :
        /\ call.op = "spectrum"
        /\ features.line.wavelength.val[1] = Micron(w)
        /\ features' = loop_over_non_fixed(features, "line", "power",
                [n \in OfKind(features, "line") |->
                    amp_guess_integral(w, inst, call.name[1], call.name[2])], FALSE)
        /\ call' = Call("guess", call.name, inst, One, FALSE)
        /\ ret' = NoRet
        /\ UNCHANGED fitter

LineFluxNext ==
    \/ TakeFluxSample
    \/ GuessLineFlux

LineFluxSpec == LineFluxInit /\ [][LineFluxNext]_vars

\* the samples of the spectrum of the call inside the window of the line
InWindow ==
    xz_window(call.name[1], InTicks(features.line.wavelength.val[1]),
              InTicks(instrument_fwhm(call.inst, features.line.wavelength.val[1]).val[1]))

\* C28 (as claimed): the power that guess() writes with integrate_line_flux
\* for a line that is not fixed is never negative, for every spectrum and
\* every line, and it is 0 for a window of fewer than two samples and for a
\* line outside the segments of the instrument.
C28_PowerNotNegative ==
    call.op = "guess" =>
        /\ ~features.line.power.val[1].neg
        /\ Cardinality(InWindow) < 2 => features.line.power.val[1].abs = Zero
        /\ ~within_segment(features.line.wavelength.val[1], call.inst)
            => features.line.power.val[1].abs = Zero

\* what holds of the code: the power is not negative when no flux of the
\* spectrum is, and it is 0 for a line outside the segments
C28_PowerOfPositiveFlux ==
    call.op = "guess" =>
        /\ (\A i \in 1..Len(call.name[2]) : call.name[2][i] >= 0)
            => ~features.line.power.val[1].neg
        /\ Cardinality(InWindow) < 2 => features.line.power.val[1].abs = Zero
        /\ ~within_segment(features.line.wavelength.val[1], call.inst)
            => features.line.power.val[1].abs = Zero

(***************************************************************************)
(* The Fitter interface (class Fitter(ABC)) and the class AstropyFitter    *)
(* that derives from it, as the operations each defines: the name and the  *)
(* parameters after self, a default written as in the source.              *)
(***************************************************************************)
Decl(name, args) == [name |-> name, args |-> args]

\* the @abstractmethod definitions of Fitter
FitterInterface ==
    {Decl("clear", <<>>),
     Decl("components", <<>>),
     Decl("finalize_model", <<>>),
     Decl("register_starlight", <<"name", "temperature", "tau">>),
     Decl("register_dust_continuum", <<"name", "temperature", "tau">>),
     Decl("register_line", <<"name", "power", "wavelength", "fwhm">>),
     Decl("register_dust_features", <<"name", "power", "wavelength", "fwhm">>),
     Decl("register_attenuation", <<"name", "tau">>),
     Decl("register_absorption", <<"name", "tau", "wavelength", "fwhm">>),
     Decl("evaluate_model", <<"xz">>),
     Decl("fit", <<"xz", "yz", "uncz", "maxiter=1000">>),
     Decl("get_result", <<"feature_name">>)}

\* the methods AstropyFitter defines
AstropyFitterMethods ==
    {Decl("__init__", <<>>),
     Decl("clear", <<>>),
     Decl("components", <<>>),
     Decl("finalize_model", <<>>),
     Decl("_register_component", <<"astropy_model_class", "multiplicative=False", "**kwargs">>),
     Decl("register_starlight", <<"name", "temperature", "tau">>),
     Decl("register_dust_continuum", <<"name", "temperature", "tau">>),
     Decl("register_line", <<"name", "power", "wavelength", "fwhm">>),
     Decl("register_dust_feature", <<"name", "power", "wavelength", "fwhm">>),
     Decl("register_attenuation", <<"name", "tau">>),
     Decl("register_absorption", <<"name", "tau", "wavelength", "fwhm">>),
     Decl("evaluate_model", <<"xz">>),
     Decl("fit", <<"xz", "yz", "uncz", "verbose=False", "maxiter=10000">>),
     Decl("get_result", <<"component_name">>),
     Decl("_astropy_model_kwargs", <<"component_name", "param_names", "value_tuples">>)}

\* AstropyFitter.__abstractmethods__: the abstract methods of the base that
\* the class does not define.  A class with any cannot be instantiated.
abstractmethods ==
    {d.name : d \in FitterInterface} \ {d.name : d \in AstropyFitterMethods}

\* C29 (as claimed): AstropyFitter provides, under the same name and with
\* the same arguments, every operation that the Fitter interface declares,
\* so that it can be instantiated and so that every operation by which a
\* session is driven is one the interface declares.
C29_ProvidesInterface ==
    /\ abstractmethods = {}
    /\ FitterInterface \subseteq AstropyFitterMethods
    /\ call.op # "__init__" => call.op \in {d.name : d \in FitterInterface}

\* what holds of the code: apart from register_dust_features, fit and
\* get_result, every declared operation is provided as declared, and a
\* session is driven by declared names or by register_dust_feature
C29_ProvidesAllButThree ==
    /\ abstractmethods = {"register_dust_features"}
    /\ \A d \in FitterInterface :
        d.name \notin {"register_dust_features", "fit", "get_result"}
            => d \in AstropyFitterMethods
    /\ call.op \notin {"__init__", "register_dust_feature"}
        => call.op \in {d.name : d \in FitterInterface}

(***************************************************************************)
(* ScaleSpec: a session of two additive components, an attenuation and an  *)
(* absorption is set up, finalized and evaluated on an array of            *)
(* wavelengths.  The attenuation and the absorption are evaluated from     *)
(* their parameters; what an additive component gives at the wavelengths   *)
(* enters as a number.  call.name of an evaluation is the array followed   *)
(* by the values of the additive components.                               *)
(***************************************************************************)
ScaleTaus == {Zero, Flt(1, 2)}
ScaleArrays == {<<Flt(97, 10)>>, <<Flt(8, 1), Flt(18, 1)>>}
AdditiveNames == {"star", "line"}
AdditiveValues == {Flt(1, 2), Flt(3, 1)}

\* the array a component evaluates to on xz
ComponentOn(c, xz, v) ==
    IF c.cls = "S07_attenuation"
    THEN S07_attenuation(xz, c.params.tau_sil.value).names
    ELSE IF c.cls = "att_Drude1D"
    THEN att_Drude1D(xz, c.params.tau.value, c.params.x_0.value, c.params.fwhm.value).names
    ELSE Full(Len(xz), v[c.name])

\* astropy evaluates the expression tree on the arrays, element by element
Combine(o, a, b) ==
    [k \in 1..Len(a) |-> IF o = "+" THEN FAdd(a[k], b[k]) ELSE FMul(a[k], b[k])]

RECURSIVE EvalArrays(_, _, _, _, _)
EvalArrays(model, i, stack, xz, v) ==
    IF i > Len(model) THEN stack
    ELSE EvalArrays(model, i + 1,
            IF model[i].op = "leaf"
            THEN Append(stack, ComponentOn(model[i].c, xz, v))
            ELSE Append(SubSeq(stack, 1, Len(stack) - 2),
                        Combine(model[i].op, stack[Len(stack) - 1], stack[Len(stack)])),
            xz, v)

\* self.model(xz)
model_call(model, xz, v) == EvalArrays(model, 1, <<>>, xz, v)[1]

ScaleInit ==
    /\ features = SubTable(AdditiveNames \cup {"att", "abs"})
    /\ fitter = NewFitter
    /\ ret = NoRet
    /\ call = FitterCall("__init__", "")

ScaleRegisterAdditive ==
    \E n \in AdditiveNames :
        /\ Fresh(n)
        /\ IF Pack[n].kind = "starlight"
           THEN Registered("register_starlight", n,
                    register_starlight(fitter, n, Pack[n].temperature, Pack[n].tau))
           ELSE Registered("register_line", n,
                    register_line(fitter, n, Pack[n].power, Pack[n].wavelength, Pack[n].fwhm))

ScaleRegisterAttenuation ==
    \E tau \in ScaleTaus :
        /\ Fresh("att")
        /\ Registered("register_attenuation", "att",
                register_attenuation(fitter, "att", Bounded(tau, Zero, Flt(10, 1))))

ScaleRegisterAbsorption ==
    \E tau \in ScaleTaus :
        /\ Fresh("abs")
        /\ Registered("register_absorption", "abs",
                register_absorption(fitter, "abs", Bounded(tau, Zero, Flt(10, 1)),
                                    Fixed(Flt(97, 10)), Fixed(Flt(4, 1))))

\* evaluate_model(xz); self.model is None before finalize_model
EvaluateModel ==
    \E xz \in ScaleArrays, v \in [AdditiveNames -> AdditiveValues] :
        /\ ret' = IF fitter.model = NoModel THEN Failed("TypeError")
                  ELSE [NoRet EXCEPT !.names = model_call(fitter.model, xz, v)]
        /\ call' = FitterCall("evaluate_model", <<xz, v>>)
        /\ UNCHANGED <<features, fitter>>

ScaleNext ==
    \/ ScaleRegisterAdditive
    \/ ScaleRegisterAttenuation
    \/ ScaleRegisterAbsorption
    \/ FinalizeModel
    \/ EvaluateModel

ScaleSpec == ScaleInit /\ [][ScaleNext]_vars

\* the places of the model where a component of class cls stands whose
\* parameter p is 0
ZeroLeaves(model, cls, p) ==
    {i \in 1..Len(model) :
        /\ model[i].op = "leaf"
        /\ model[i].c.cls = cls
        /\ model[i].c.params[p].value = Zero}

\* the model without the multiplicative component at place i (and the
\* product that applies it)
Removed(model, i) == SubSeq(model, 1, i - 1) \o SubSeq(model, i + 2, Len(model))

\* C30: a finalized model that contains an absorption whose tau is 0
\* evaluates to 0 at every wavelength, whatever its additive components
\* give; an attenuation whose tau is 0 changes nothing: the model evaluates
\* to what it evaluates to without that attenuation.
C30_ZeroTauScalesSum ==
    (call.op = "evaluate_model" /\ ret.err = "") =>
        /\ ZeroLeaves(fitter.model, "att_Drude1D", "tau") # {}
            => \A k \in 1..Len(ret.names) : ret.names[k] = Zero
        /\ \A i \in ZeroLeaves(fitter.model, "S07_attenuation", "tau_sil") :
            ret.names = model_call(Removed(fitter.model, i), call.name[1], call.name[2])

\* two additive components, an attenuation of tau 0.5 and an absorption of
\* tau 0, evaluated at two wavelengths
C30_Witness ==
    /\ call.op = "evaluate_model"
    /\ ret.err = ""
    /\ Len(ret.names) = 2
    /\ ZeroLeaves(fitter.model, "att_Drude1D", "tau") # {}
    /\ \E i \in 1..Len(fitter.model) :
        /\ fitter.model[i].c.cls = "S07_attenuation"
        /\ fitter.model[i].c.params.tau_sil.value = Flt(1, 2)
    /\ Len(fitter.additive_components) = 2
    /\ Len(fitter.model) = 7

====
